---- MODULE Spec2Model ----
(***************************************************************************)
(* Verification model of the libFirm backend transformation engine         *)
(* (ir/be/betranshlp.c) and of the ARM instruction selector that is kept   *)
(* in ir/be/mips/mips_new_nodes.c.                                         *)
(*                                                                         *)
(* Specifications:                                                         *)
(*   SpecImm  the immediate encoder try_encode_val_as_immediate applied to *)
(*            one 32-bit word;                                             *)
(*   Spec     one run of be_transform_graph on one source graph, stepped   *)
(*            call by call (be_transform_node, the transform functions,    *)
(*            the worklist loop, fix_loops);                               *)
(*   FairSpec Spec under the assumption that the process keeps running.    *)
(*                                                                         *)
(* A 32-bit word (uint32_t) is the set of the positions of its set bits,   *)
(* a subset of 0..31, so that shifts and rotations keep the width exactly. *)
(* A uint8_t is a number in 0..255.                                        *)
(***************************************************************************)
EXTENDS Integers, Sequences, FiniteSets, TLC

(* ---------------------------------------------------------------------- *)
(* Bounds of the model (not program constants).                            *)
(* ---------------------------------------------------------------------- *)

\* Encoder inputs are all rotations of all bit patterns of this span.
MaxSpan == 9

\* Depth of the C call stack (nested be_transform_node / fix_loops calls)
\* at which the process runs out of stack.
MaxDepth == 12

(* ---------------------------------------------------------------------- *)
(* 32-bit words                                                            *)
(* ---------------------------------------------------------------------- *)

WordBits == 32

BitPos == 0 .. (WordBits - 1)

SetMin(S) == CHOOSE m \in S : \A x \in S : m <= x

SetMax(S) == CHOOSE m \in S : \A x \in S : x <= m

\* number of trailing zeros (adt/bitfiddle.h); 32 for the word 0
ntz(x) == IF x = {} THEN WordBits ELSE SetMin(x)

\* number of leading zeros (adt/bitfiddle.h); 32 for the word 0
nlz(x) == IF x = {} THEN WordBits ELSE (WordBits - 1) - SetMax(x)

\* x >> k on uint32_t, 0 <= k < 32
ShiftR(x, k) == {b - k : b \in {c \in x : c >= k}}

\* x << k on uint32_t, 0 <= k < 32
ShiftL(x, k) == {b + k : b \in {c \in x : c + k < WordBits}}

\* rotate left / right within 32 bits
Rol(x, r) == {(b + r) % WordBits : b \in x}

Ror(x, r) == {(b + WordBits - (r % WordBits)) % WordBits : b \in x}

\* ~x on uint32_t
BitNot(x) == BitPos \ x

\* n & ~1u
AndNot1(n) == n - (n % 2)

\* val <= 0xff
LeFF(x) == x \subseteq (0 .. 7)

Pow2(b) == 2 ^ b

\* the number a word stands for (of a word below 2^31)
SumBits[S \in SUBSET BitPos] ==
    IF S = {} THEN 0
    ELSE LET b == SetMax(S) IN Pow2(b) + SumBits[S \ {b}]

\* conversion of a word to uint8_t: the low 8 bits, as a number
ToU8(x) == SumBits[x \cap (0 .. 7)]

\* the word whose value is the uint8_t n (zero extension)
FromU8(n) == {b \in 0 .. 7 : (n \div Pow2(b)) % 2 = 1}

\* words used in the scenarios
W_0xFF == 0 .. 7

W_0x3FC == 2 .. 9

W_0x101 == {0, 8}

W_0xF000000F == (0 .. 3) \cup (28 .. 31)

(* ---------------------------------------------------------------------- *)
(* State                                                                   *)
(* ---------------------------------------------------------------------- *)

VARIABLES
    val,          \* SpecImm: the argument val of try_encode_val_as_immediate
    imm,          \* SpecImm: the arm_immediate_t *res, [imm_8, rot]
    enc_ret,      \* SpecImm: "none" before the call, then "true" / "false"
    irn,          \* the nodes of the graph's obstacks: irn[i] is node i
    irg_visited,  \* irg->visited, the current visited epoch
    arm_cg_config,\* the target configuration, [variant, fpu]
    cconv,        \* the calling convention record of the function (static cconv)
    start_val,    \* start_mem and start_val[]: [pos, irn] per output of Start
    start_callee_saves_offset, \* first callee-save output of the Start node
    node_to_stack,\* the pmap node_to_stack: <<Call, restoring IncSP>>
    stackorder,   \* the map of be_collect_stacknodes: <<node, predecessor>>
    debug,        \* the build: TRUE with -DDEBUG_libfirm (asserts on),
                  \* FALSE with -DNDEBUG (no DEBUG_libfirm, asserts off)
    anchor,       \* irg->anchor
    old_anchor,   \* transform_nodes' local old_anchor
    worklist,     \* env.worklist
    pc,           \* position of transform_nodes, or how the process ended
    ai,           \* loop index of the anchor loops of transform_nodes
    stack,        \* the active transform functions, innermost last
    call,         \* argument of a be_transform_node call about to be entered
    ret,          \* value a be_transform_node call is returning
    fstack,       \* the active fix_loops calls, innermost last
    panic_node,   \* the node a panic() message names
    xlog,         \* history: source nodes whose transform function was invoked
    retlog,       \* history: <<node, result>> of every returned be_transform_node
    fixlog,       \* history: nodes fix_loops went on to process
    emitlog,      \* history: <<source node, node its transform function created>>
    ops_generic,  \* op->ops.generic of the opcodes: <<opcode, transform
                  \* function>> for every opcode whose pointer is not NULL
    ops_generic1, \* op->ops.generic1: <<opcode, Proj transformer>>
    irgs,         \* the functions the backend still has to hand to
                  \* arm_transform_graph, in order
    statlog       \* history: the writes <<"w", slot>> and reads <<"r", slot>>
                  \* of start_mem, start_val[] and start_callee_saves_offset
                  \* since arm_transform_graph was entered

\* the state of the ARM selector besides the target configuration
selvars == <<cconv, start_val, start_callee_saves_offset, node_to_stack,
             stackorder>>

encvars == <<val, imm, enc_ret>>

seqvars == <<irgs, statlog>>

\* the transformer tables of the opcodes
opvars == <<ops_generic, ops_generic1>>

engvars == <<irn, irg_visited, arm_cg_config, selvars, debug, anchor, old_anchor, worklist, pc, ai,
             stack, call, ret, fstack, panic_node, xlog, retlog, fixlog,
             emitlog, seqvars, opvars>>

vars == <<val, imm, enc_ret, irn, irg_visited, arm_cg_config, selvars, debug, anchor, old_anchor,
          worklist, pc, ai, stack, call, ret, fstack, panic_node, xlog,
          retlog, fixlog, emitlog, seqvars, opvars>>

NULL == 0

NoRet == [node |-> NULL, val |-> NULL]

(* ---------------------------------------------------------------------- *)
(* try_encode_val_as_immediate                                             *)
(* ---------------------------------------------------------------------- *)

\* unsigned low_pos = ntz(val) & ~1u;
low_pos_of(v) == AndNot1(ntz(v))

\* a slip in the rounding of the upper position: the "+1" left out
high_pos_of_noround(v) == AndNot1(WordBits - nlz(v))

\* unsigned high_pos = (32-nlz(val)+1) & ~1u;
high_pos_of(v) == AndNot1(WordBits - nlz(v) + 1)

\* the result of the branch "high_pos - low_pos <= 8": both fields are
\* uint8_t, so the assignments truncate.
encode_shifted(v, low_pos) ==
    [ok    |-> TRUE,
     imm_8 |-> ToU8(ShiftR(v, low_pos)),
     rot   |-> (WordBits - low_pos) % 256]

\* the branch "high_pos > 24": res->rot is written before the test, and
\* res->imm_8 keeps what it held when the rotated word does not fit.
encode_wrapped(v, high_pos, res) ==
    LET rot == (34 - high_pos) % 256
        rv  == ShiftR(v, WordBits - rot) \cup ShiftL(v, rot)
    IN  IF LeFF(rv)
        THEN [ok |-> TRUE,  imm_8 |-> ToU8(rv),   rot |-> rot]
        ELSE [ok |-> FALSE, imm_8 |-> res.imm_8, rot |-> rot]

\* high_pos > low_pos for every non-zero word, so the unsigned difference
\* never wraps.
try_encode_val_as_immediate(v, res) ==
    IF LeFF(v)
    THEN [ok |-> TRUE, imm_8 |-> ToU8(v), rot |-> 0]
    ELSE LET low_pos  == low_pos_of(v)
             high_pos == high_pos_of(v)
         IN  IF high_pos - low_pos <= 8
             THEN encode_shifted(v, low_pos)
             ELSE IF high_pos > 24
                  THEN encode_wrapped(v, high_pos, res)
                  ELSE [ok |-> FALSE, imm_8 |-> res.imm_8, rot |-> res.rot]

(* ---------------------------------------------------------------------- *)
(* Nodes                                                                   *)
(* ---------------------------------------------------------------------- *)

\* a method type: the modes of its parameters and of its results
method_type(params, ress) == [params |-> params, ress |-> ress]

\* an ir_entity: "none" is the NULL entity, "function" a callee, "param" the
\* frame entity of the parameter idx
ir_entity(kind, idx) == [kind |-> kind, idx |-> idx]

\* new_ir_node (ir/ir/irnode.c): a fresh node has visited = 0 and link =
\* NULL.  tv is a Const's tarval, pn a Proj's number; shift_modifier,
\* immediate_value and shift_immediate are the arm_shifter_operand_t of a
\* target node ("none" for a node without one); type is a Call's method
\* type, entity and offset the entity and the offset of a Bl, a load, a
\* store or an IncSP; in_reqs and out_reqs are the register requirements
\* set on the node, one per operand and one per output ("none" for
\* arch_no_register_req, "gp" for the class requirement, a register's name
\* for its single_req); resmode is the result mode of a Div and the mode
\* loaded by a Load, unaligned the alignment flag of a Load or a Store.
new_ir_node(op, mode, ins, block) ==
    [op |-> op, mode |-> mode, ins |-> ins, block |-> block,
     link |-> NULL, visited |-> 0, tv |-> {}, pn |-> 0,
     shift_modifier |-> "none", immediate_value |-> 0, shift_immediate |-> 0,
     type |-> method_type(<<>>, <<>>), entity |-> ir_entity("none", 0),
     offset |-> 0, in_reqs |-> <<>>, out_reqs |-> <<>>,
     resmode |-> mode, unaligned |-> "align_is_aligned"]

\* exact_copy: same op, mode, operands, block and attributes, a node of its own
exact_copy(n) ==
    [n EXCEPT !.link = NULL, !.visited = 0]

get_irn_arity(nodes, n) == Len(nodes[n].ins)

\* irn_visited: node->visited >= irg->visited
irn_visited(nodes, epoch, n) == nodes[n].visited >= epoch

\* be_is_transformed that forgets the visited mark
be_is_transformed_never(nodes, epoch, n) == FALSE

be_is_transformed(nodes, epoch, n) == irn_visited(nodes, epoch, n)

\* set_irn_link(old_node, new_node); mark_irn_visited(old_node);
be_set_transformed_node(nodes, epoch, old_node, new_node) ==
    [nodes EXCEPT ![old_node].link = new_node, ![old_node].visited = epoch]

\* set_irn_n(node, i, in), i counted from 1
set_irn_n(nodes, n, i, in) == [nodes EXCEPT ![n].ins[i] = in]

is_op(nodes, n, op) == n # NULL /\ nodes[n].op = op

is_Const(nodes, n) == is_op(nodes, n, "Const")

is_Block(nodes, n) == is_op(nodes, n, "Block")

\* set_irg_end: the End input of the graph's anchor, whose inputs are
\* end block, start block, end, start, no_mem
set_irg_end(nodes, anch, end) == set_irn_n(nodes, anch, 3, end)

\* keep_alive(ka): one more operand for the End node of the graph
keep_alive(nodes, anch, ka) ==
    [nodes EXCEPT ![nodes[anch].ins[3]].ins = Append(@, ka)]

\* be_enqueue_preds that puts nothing into the worklist
be_enqueue_preds_none(nodes, node) == <<>>

\* be_enqueue_preds: the nodes appended to env.worklist, in order
be_enqueue_preds(nodes, node) == nodes[node].ins

(* ---------------------------------------------------------------------- *)
(* The transformer tables: be_start_transform_setup and                    *)
(* arm_register_transformers                                               *)
(* ---------------------------------------------------------------------- *)

\* ir_clear_opcodes_generic_func: every pointer is NULL again.  tab is
\* [generic, generic1, failed]: the two tables, and whether an assertion of
\* be_set_transform_function was violated on the way.
ir_clear_opcodes_generic_func(tab) ==
    [tab EXCEPT !.generic = {}, !.generic1 = {}]

\* be_set_transform_function that leaves the pointer as it is
be_set_transform_function_keep(tab, op, func) ==
    [tab EXCEPT !.failed = @ \/ \E e \in tab.generic : e[1] = op]

\* be_set_transform_function: assert(!op->ops.generic), then the pointer
\* is overwritten
be_set_transform_function(tab, op, func) ==
    [tab EXCEPT !.generic = {e \in @ : e[1] # op} \cup {<<op, func>>},
                !.failed = @ \/ \E e \in tab.generic : e[1] = op]

\* be_set_transform_proj_function: the pointer is overwritten, no assertion
be_set_transform_proj_function(tab, op, func) ==
    [tab EXCEPT !.generic1 = {e \in @ : e[1] # op} \cup {<<op, func>>}]

\* the calls be_start_transform_setup makes, in order
be_start_transform_setup ==
    << <<"clear">>,
       <<"generic", "Block", "transform_block">>,
       <<"generic", "End", "transform_end">>,
       <<"generic", "NoMem", "be_duplicate_node">>,
       <<"generic", "Pin", "be_duplicate_node">>,
       <<"generic", "Proj", "transform_proj">>,
       <<"generic", "Sync", "be_duplicate_node">> >>

\* the calls arm_register_transformers makes, in order
arm_register_transformers ==
    be_start_transform_setup \o
    << <<"generic", "Add", "gen_Add">>,
       <<"generic", "Address", "gen_Address">>,
       <<"generic", "And", "gen_And">>,
       <<"generic", "arm_AdC_t", "gen_arm_AdC_t">>,
       <<"generic", "arm_AddS_t", "gen_arm_AddS_t">>,
       <<"generic", "arm_OrPl_t", "gen_arm_OrPl_t">>,
       <<"generic", "arm_SbC_t", "gen_arm_SbC_t">>,
       <<"generic", "arm_SubS_t", "gen_arm_SubS_t">>,
       <<"generic", "arm_UMulL_t", "gen_arm_UMulL_t">>,
       <<"generic", "Builtin", "gen_Builtin">>,
       <<"generic", "Call", "gen_Call">>,
       <<"generic", "Cmp", "gen_Cmp">>,
       <<"generic", "Cond", "gen_Cond">>,
       <<"generic", "Const", "gen_Const">>,
       <<"generic", "Conv", "gen_Conv">>,
       <<"generic", "CopyB", "gen_CopyB">>,
       <<"generic", "Div", "gen_Div">>,
       <<"generic", "Eor", "gen_Eor">>,
       <<"generic", "Jmp", "gen_Jmp">>,
       <<"generic", "Load", "gen_Load">>,
       <<"generic", "Member", "gen_Member">>,
       <<"generic", "Minus", "gen_Minus">>,
       <<"generic", "Mul", "gen_Mul">>,
       <<"generic", "Not", "gen_Not">>,
       <<"generic", "Or", "gen_Or">>,
       <<"generic", "Phi", "gen_Phi">>,
       <<"generic", "Return", "gen_Return">>,
       <<"generic", "Shl", "gen_Shl">>,
       <<"generic", "Shr", "gen_Shr">>,
       <<"generic", "Shrs", "gen_Shrs">>,
       <<"generic", "Start", "gen_Start">>,
       <<"generic", "Store", "gen_Store">>,
       <<"generic", "Sub", "gen_Sub">>,
       <<"generic", "Switch", "gen_Switch">>,
       <<"generic", "Unknown", "gen_Unknown">>,
       <<"generic1", "arm_AddS_t", "gen_Proj_arm_AddS_t">>,
       <<"generic1", "arm_SubS_t", "gen_Proj_arm_SubS_t">>,
       <<"generic1", "arm_UMulL_t", "gen_Proj_arm_UMulL_t">>,
       <<"generic1", "Builtin", "gen_Proj_Builtin">>,
       <<"generic1", "Call", "gen_Proj_Call">>,
       <<"generic1", "Cond", "be_duplicate_node">>,
       <<"generic1", "Div", "gen_Proj_Div">>,
       <<"generic1", "Load", "gen_Proj_Load">>,
       <<"generic1", "Proj", "gen_Proj_Proj">>,
       <<"generic1", "Start", "gen_Proj_Start">>,
       <<"generic1", "Store", "gen_Proj_Store">>,
       <<"generic1", "Switch", "be_duplicate_node">> >>

\* the tables after the call c
register_call(tab, c) ==
    CASE c[1] = "clear"    -> ir_clear_opcodes_generic_func(tab)
      [] c[1] = "generic"  -> be_set_transform_function(tab, c[2], c[3])
      [] c[1] = "generic1" -> be_set_transform_proj_function(tab, c[2], c[3])

\* the tables after the calls, made one after the other
RECURSIVE register_calls(_, _)
register_calls(tab, calls) ==
    IF calls = <<>> THEN tab
    ELSE register_calls(register_call(tab, Head(calls)), Tail(calls))

\* the tables as the variables hold them
OpTables == [generic |-> ops_generic, generic1 |-> ops_generic1,
             failed |-> FALSE]

\* the tables of a process that has registered nothing yet
NoTransformers == [generic |-> {}, generic1 |-> {}, failed |-> FALSE]

\* the tables after arm_register_transformers
Registered == register_calls(NoTransformers, arm_register_transformers)

\* op->ops.generic != NULL
has_transform(op) == \E e \in ops_generic : e[1] = op

\* pred_op->ops.generic1 != NULL
has_proj_transform(op) == \E e \in ops_generic1 : e[1] = op

(* ---------------------------------------------------------------------- *)
(* The ARM selector: constants                                             *)
(* ---------------------------------------------------------------------- *)

\* the do-while loop of arm_gen_vals_from_word; value is not 0 on entry
gen_vals_loop[value \in SUBSET BitPos, initial \in 0 .. WordBits] ==
    IF value \cap {0, 1} = {}
    THEN gen_vals_loop[ShiftR(value, 2), initial + 2]
    ELSE <<[value |-> ToU8(value), ror |-> (WordBits - initial) % WordBits]>>
         \o (IF ShiftR(value, 8) # {}
             THEN gen_vals_loop[ShiftR(value, 8), initial + 8]
             ELSE <<>>)

\* the arm_vals of a word: the sequence of (values[i], rors[i]), ops long
arm_gen_vals_from_word(value) ==
    IF LeFF(value)
    THEN <<[value |-> ToU8(value), ror |-> 0]>>
    ELSE gen_vals_loop[value, 0]

\* new_bd_arm_<op>_imm without a register operand (Mov_imm, Mvn_imm)
new_bd_arm_imm0(op, block, imm8, rot) ==
    [new_ir_node(op, "Iu", <<>>, block) EXCEPT
        !.shift_modifier = "ARM_SHF_IMM",
        !.immediate_value = imm8,
        !.shift_immediate = rot]

\* new_bd_arm_<op>_imm: register op immediate
new_bd_arm_imm(op, block, op1, imm8, rot) ==
    [new_ir_node(op, "Iu", <<op1>>, block) EXCEPT
        !.shift_modifier = "ARM_SHF_IMM",
        !.immediate_value = imm8,
        !.shift_immediate = rot]

\* new_bd_arm_<op>_reg: register op register
new_bd_arm_reg(op, block, op1, op2) ==
    [new_ir_node(op, "Iu", <<op1, op2>>, block) EXCEPT
        !.shift_modifier = "ARM_SHF_REG"]

\* new_bd_arm_<op>_reg_shift_imm: register op (register shifted by immediate)
new_bd_arm_reg_shift_imm(op, block, left, right, modifier, shimm) ==
    [new_ir_node(op, "Iu", <<left, right>>, block) EXCEPT
        !.shift_modifier = modifier,
        !.shift_immediate = shimm]

\* new_bd_arm_<op>_reg_shift_reg: register op (register shifted by register)
new_bd_arm_reg_shift_reg(op, block, left, right, shift, modifier) ==
    [new_ir_node(op, "Iu", <<left, right, shift>>, block) EXCEPT
        !.shift_modifier = modifier]

\* create_const_graph_value that only ever adds bits
create_const_graph_value_add_bits(block, value, base) ==
    LET w == arm_gen_vals_from_word(value)
    IN  [cnt \in 1 .. Len(w) |->
            IF cnt = 1
            THEN new_bd_arm_imm0("arm_Mov", block, w[1].value, w[1].ror)
            ELSE new_bd_arm_imm("arm_Or", block, base + cnt - 1,
                                w[cnt].value, w[cnt].ror)]

\* the nodes create_const_graph_value appends for a word, the first of them
\* getting the id base + 1; the last one is the result.
create_const_graph_value(block, value, base) ==
    LET v  == arm_gen_vals_from_word(value)
        vn == arm_gen_vals_from_word(BitNot(value))
        remove == Len(vn) < Len(v)
        w  == IF remove THEN vn ELSE v
        first == IF remove THEN "arm_Mvn" ELSE "arm_Mov"
        next  == IF remove THEN "arm_Bic" ELSE "arm_Or"
    IN  [cnt \in 1 .. Len(w) |->
            IF cnt = 1
            THEN new_bd_arm_imm0(first, block, w[1].value, w[1].ror)
            ELSE new_bd_arm_imm(next, block, base + cnt - 1,
                                w[cnt].value, w[cnt].ror)]

(* ---------------------------------------------------------------------- *)
(* The ARM selector: operand folding                                       *)
(* ---------------------------------------------------------------------- *)

IntModes == {"Iu", "Is", "Hu", "Hs", "Bu", "Bs", "P"}

\* get_mode_arithmetic(mode) == irma_twos_complement
mode_needs_gp_reg(mode) == mode \in IntModes

get_mode_size_bits(mode) ==
    CASE mode \in {"Iu", "Is", "P", "F"} -> 32
      [] mode \in {"Hu", "Hs"} -> 16
      [] mode \in {"Bu", "Bs"} -> 8
      [] mode = "D" -> 64
      [] OTHER -> 0

\* the source nodes: the anchor is the last node of the source graph
SrcNodes(nodes, anch) == 1 .. anch

\* get_irn_n_edges: the number of operand positions that use n
get_irn_n_edges(nodes, anch, n) ==
    Cardinality({ui \in SrcNodes(nodes, anch) \X (1 .. 4) :
                    /\ ui[2] <= Len(nodes[ui[1]].ins)
                    /\ nodes[ui[1]].ins[ui[2]] = n})

\* one round of the loop of be_skip_downconv; the loop ends when a round
\* leaves the node as it is
RECURSIVE be_skip_downconv(_, _, _, _)
be_skip_downconv(nodes, anch, node, single_user) ==
    IF single_user /\ get_irn_n_edges(nodes, anch, node) > 1
    THEN node
    ELSE IF is_op(nodes, node, "Conv")
         THEN LET op == nodes[node].ins[1]
                  src_mode == nodes[op].mode
              IN  IF \/ ~mode_needs_gp_reg(src_mode)
                     \/ get_mode_size_bits(nodes[node].mode)
                            > get_mode_size_bits(src_mode)
                  THEN node
                  ELSE be_skip_downconv(nodes, anch, op, single_user)
         ELSE node

RECURSIVE be_skip_sameconv(_, _, _)
be_skip_sameconv(nodes, anch, node) ==
    IF get_irn_n_edges(nodes, anch, node) > 1
    THEN node
    ELSE IF is_op(nodes, node, "Conv")
         THEN LET op == nodes[node].ins[1]
                  src_mode == nodes[op].mode
              IN  IF \/ ~mode_needs_gp_reg(src_mode)
                     \/ get_mode_size_bits(nodes[node].mode)
                            # get_mode_size_bits(src_mode)
                  THEN node
                  ELSE be_skip_sameconv(nodes, anch, op)
         ELSE node

NoImm == [ok |-> FALSE, imm_8 |-> 0, rot |-> 0]

\* try_encode_as_immediate that takes any Const for encodable and keeps
\* only the low byte
try_encode_as_immediate_any(nodes, node) ==
    IF ~is_Const(nodes, node)
    THEN NoImm
    ELSE [ok |-> TRUE, imm_8 |-> ToU8(nodes[node].tv), rot |-> 0]

\* is_Const(node) && try_encode_val_as_immediate(get_Const_long(node), res);
\* the fields of res are read only after a successful encoding
try_encode_as_immediate(nodes, node) ==
    IF ~is_Const(nodes, node)
    THEN NoImm
    ELSE try_encode_val_as_immediate(nodes[node].tv, NoImm)

\* what a transform function is going to do with a source node: kind names
\* the function (and the branch the source graph selects), dem is the
\* sequence of source nodes it calls be_transform_node on, in call order.
MkPlan(kind, dem) ==
    [kind |-> kind, dem |-> dem, factory |-> <<>>, idx |-> 1,
     imm |-> NoImm, flags |-> {}]

\* gen_int_binop_ops, up to its last be_transform_node call
gen_int_binop_ops(nodes, anch, node, op1_, op2_, flags, factory) ==
    LET block == nodes[node].block
        op1 == IF "MATCH_SIZE_NEUTRAL" \in flags
               THEN be_skip_downconv(nodes, anch, op1_, TRUE)
               ELSE be_skip_sameconv(nodes, anch, op1_)
        op2 == IF "MATCH_SIZE_NEUTRAL" \in flags
               THEN be_skip_downconv(nodes, anch, op2_, TRUE)
               ELSE be_skip_sameconv(nodes, anch, op2_)
        e2 == try_encode_as_immediate(nodes, op2)
        e1 == try_encode_as_immediate(nodes, op1)
        rev == flags \cap {"MATCH_COMMUTATIVE", "MATCH_REVERSE"} # {}
    IN  IF e2.ok
        THEN [MkPlan("binop_imm", <<block, op1>>) EXCEPT
                !.factory = factory, !.idx = 1, !.imm = e2, !.flags = flags]
        ELSE IF rev /\ e1.ok
        THEN [MkPlan("binop_imm", <<block, op2>>) EXCEPT
                !.factory = factory,
                !.idx = IF "MATCH_REVERSE" \in flags THEN 2 ELSE 1,
                !.imm = e1, !.flags = flags]
        ELSE [MkPlan("binop_reg", <<block, op2, op1>>) EXCEPT
                !.factory = factory, !.flags = flags]

ImmShifts == {"ARM_SHF_IMM", "ARM_SHF_ASR_IMM", "ARM_SHF_LSL_IMM",
              "ARM_SHF_LSR_IMM", "ARM_SHF_ROR_IMM"}

RegShifts == {"ARM_SHF_ASR_REG", "ARM_SHF_LSL_REG", "ARM_SHF_LSR_REG",
              "ARM_SHF_ROR_REG"}

is_arm_Mov(nodes, n) == is_op(nodes, n, "arm_Mov")

\* get_irn_n(mov, i): garb is what a read past the operands yields
mov_in(nodes, mov, i, garb) ==
    IF i <= Len(nodes[mov].ins) THEN nodes[mov].ins[i] ELSE garb

\* what gen_int_binop_ops builds once all operands are transformed:
\* [node |-> the new node, oob |-> an operand was read past a Mov's inputs]
gen_int_binop_ops_fold(nodes, plan, block, new_op1, new_op2, garb) ==
    LET f   == plan.factory
        rev == plan.flags \cap {"MATCH_COMMUTATIVE", "MATCH_REVERSE"} # {}
        idx == IF "MATCH_REVERSE" \in plan.flags THEN 2 ELSE 1
        m2  == IF is_arm_Mov(nodes, new_op2)
               THEN nodes[new_op2].shift_modifier ELSE "none"
        m1  == IF rev /\ is_arm_Mov(nodes, new_op1)
               THEN nodes[new_op1].shift_modifier ELSE "none"
    IN  IF m2 \in ImmShifts
        THEN [node |-> new_bd_arm_reg_shift_imm(f[1], block, new_op1,
                           mov_in(nodes, new_op2, 1, garb), m2,
                           nodes[new_op2].shift_immediate),
              oob  |-> Len(nodes[new_op2].ins) < 1]
        ELSE IF m2 \in RegShifts
        THEN [node |-> new_bd_arm_reg_shift_reg(f[1], block, new_op1,
                           mov_in(nodes, new_op2, 1, garb),
                           mov_in(nodes, new_op2, 2, garb), m2),
              oob  |-> Len(nodes[new_op2].ins) < 2]
        ELSE IF m1 \in ImmShifts
        THEN [node |-> new_bd_arm_reg_shift_imm(f[idx], block, new_op2,
                           mov_in(nodes, new_op1, 1, garb), m1,
                           nodes[new_op1].shift_immediate),
              oob  |-> Len(nodes[new_op1].ins) < 1]
        ELSE IF m1 \in RegShifts
        THEN [node |-> new_bd_arm_reg_shift_reg(f[idx], block, new_op2,
                           mov_in(nodes, new_op1, 1, garb),
                           mov_in(nodes, new_op1, 2, garb), m1),
              oob  |-> Len(nodes[new_op1].ins) < 2]
        ELSE [node |-> new_bd_arm_reg(f[1], block, new_op1, new_op2),
              oob  |-> FALSE]

(* ---------------------------------------------------------------------- *)
(* The ARM selector: idioms and transform functions                        *)
(* ---------------------------------------------------------------------- *)

\* get_tarval_long of a tarval below 2^31
get_tarval_long(tv) == SumBits[tv]

mode_is_int(mode) == mode \in {"Iu", "Is", "Hu", "Hs", "Bu", "Bs"}

mode_is_float(mode) == mode \in {"F", "D"}

\* ir_is_negated_value (ir/opt): one value is the Minus of the other
ir_is_negated_value(nodes, a, b) ==
    \/ (is_op(nodes, a, "Minus") /\ nodes[a].ins[1] = b)
    \/ (is_op(nodes, b, "Minus") /\ nodes[b].ins[1] = a)

NoMatch == [ok |-> FALSE, left |-> NULL, right |-> NULL]

\* be_pattern_is_rotl: [ok, left, right] with *left and *right
be_pattern_is_rotl(nodes, irn_or) ==
    LET l   == nodes[irn_or].ins[1]
        r   == nodes[irn_or].ins[2]
        swp == is_op(nodes, l, "Shr")
        shl == IF swp THEN r ELSE l
        shr == IF swp THEN l ELSE r
    IN  IF ~mode_is_int(nodes[irn_or].mode) THEN NoMatch
        ELSE IF ~(is_op(nodes, shl, "Shl") /\ is_op(nodes, shr, "Shr"))
        THEN NoMatch
        ELSE LET x  == nodes[shl].ins[1]
                 c1 == nodes[shl].ins[2]
                 c2 == nodes[shr].ins[2]
             IN  IF x # nodes[shr].ins[1] THEN NoMatch
                 ELSE IF is_Const(nodes, c1) /\ is_Const(nodes, c2)
                 THEN IF get_tarval_long(nodes[c1].tv)
                            + get_tarval_long(nodes[c2].tv)
                         # get_mode_size_bits(nodes[irn_or].mode)
                      THEN NoMatch
                      ELSE [ok |-> TRUE, left |-> x, right |-> c1]
                 ELSE IF ~ir_is_negated_value(nodes, c1, c2) THEN NoMatch
                 ELSE [ok |-> TRUE, left |-> x, right |-> c1]

\* get_tarval_popcount(tv) == 16 && get_tarval_highest_bit(tv) == 15
is_low_mask(tv) == Cardinality(tv) = 16 /\ SetMax(tv) = 15

\* get_tarval_popcount(tv) == 16 && get_tarval_lowest_bit(tv) == 16
is_high_mask(tv) == Cardinality(tv) = 16 /\ SetMin(tv) = 16

\* the matching part of match_pkh: [ok, left, right] with left_left and
\* right_left, the operands handed to gen_int_binop_ops
match_pkh(nodes, node) ==
    LET l == nodes[node].ins[1]
        r == nodes[node].ins[2]
    IN  IF ~(is_op(nodes, l, "And") /\ is_op(nodes, r, "And")) THEN NoMatch
        ELSE LET lr == nodes[l].ins[2]
                 rr == nodes[r].ins[2]
             IN  IF ~(is_Const(nodes, lr) /\ is_Const(nodes, rr))
                 THEN NoMatch
                 ELSE LET swp   == is_high_mask(nodes[lr].tv)
                          left  == IF swp THEN r ELSE l
                          right == IF swp THEN l ELSE r
                          left_right == IF swp THEN rr ELSE lr
                      IN  IF ~swp /\ ~is_high_mask(nodes[rr].tv)
                          THEN NoMatch
                          ELSE IF ~is_low_mask(nodes[left_right].tv)
                          THEN NoMatch
                          ELSE [ok |-> TRUE, left |-> nodes[left].ins[1],
                                right |-> nodes[right].ins[1]]

\* gen_Ror that rotates right by the amount it is given, negated or not
gen_Ror_as_given(nodes, node, op1, op2, negate_op) ==
    IF is_Const(nodes, op2) /\ get_mode_size_bits(nodes[node].mode) = 32
    THEN [MkPlan("Ror_imm", <<nodes[node].block, op1>>) EXCEPT
                !.idx = get_tarval_long(nodes[op2].tv) % 32]
    ELSE [MkPlan("Ror_reg", <<nodes[node].block, op1, op2>>) EXCEPT
                !.idx = 0]

\* gen_Ror, up to its last be_transform_node call
gen_Ror(nodes, node, op1, op2, negate_op) ==
    IF is_Const(nodes, op2) /\ get_mode_size_bits(nodes[node].mode) = 32
    THEN LET v == get_tarval_long(nodes[op2].tv)
         IN  [MkPlan("Ror_imm", <<nodes[node].block, op1>>) EXCEPT
                !.idx = (IF negate_op THEN 32 - v ELSE v) % 32]
    ELSE [MkPlan("Ror_reg", <<nodes[node].block, op1, op2>>) EXCEPT
                !.idx = IF negate_op THEN 1 ELSE 0]

\* gen_Add that transforms the other operand of a multiply-accumulate
\* first and makes it the first operand
gen_Add_other_first(nodes, anch, node) ==
    LET left  == nodes[node].ins[1]
        right == nodes[node].ins[2]
        mul   == IF is_op(nodes, left, "Mul") THEN left ELSE right
        other == IF is_op(nodes, left, "Mul") THEN right ELSE left
    IN  IF is_op(nodes, mul, "Mul")
        THEN MkPlan("Mla", <<nodes[node].block, other, nodes[mul].ins[1],
                             nodes[mul].ins[2]>>)
        ELSE gen_int_binop_ops(nodes, anch, node, left, right,
                               {"MATCH_COMMUTATIVE", "MATCH_SIZE_NEUTRAL"},
                               <<"arm_Add">>)

\* gen_Add, up to its last be_transform_node call
gen_Add(nodes, anch, node) ==
    LET rotl  == be_pattern_is_rotl(nodes, node)
        pkh   == match_pkh(nodes, node)
        left  == nodes[node].ins[1]
        right == nodes[node].ins[2]
        block == nodes[node].block
    IN  IF rotl.ok
        THEN IF is_op(nodes, rotl.right, "Minus")
             THEN gen_Ror(nodes, node, rotl.left,
                          nodes[rotl.right].ins[1], FALSE)
             ELSE gen_Ror(nodes, node, rotl.left, rotl.right, TRUE)
        ELSE IF pkh.ok
        THEN gen_int_binop_ops(nodes, anch, node, pkh.left, pkh.right,
                               {"MATCH_REVERSE"},
                               <<"arm_Pkhbt", "arm_Pkhtb">>)
        ELSE IF mode_is_float(nodes[node].mode)
        THEN MkPlan("Adf", <<block, left, right>>)
        ELSE IF is_op(nodes, left, "Mul")
        THEN MkPlan("Mla", <<block, nodes[left].ins[1],
                             nodes[left].ins[2], right>>)
        ELSE IF is_op(nodes, right, "Mul")
        THEN MkPlan("Mla", <<block, nodes[right].ins[1],
                             nodes[right].ins[2], left>>)
        ELSE gen_int_binop_ops(nodes, anch, node, left, right,
                               {"MATCH_COMMUTATIVE", "MATCH_SIZE_NEUTRAL"},
                               <<"arm_Add">>)

\* arm_variant_t in declaration order
VariantRank(v) ==
    CASE v = "ARM_VARIANT_4"   -> 0
      [] v = "ARM_VARIANT_5T"  -> 1
      [] v = "ARM_VARIANT_6"   -> 2
      [] v = "ARM_VARIANT_6T2" -> 3
      [] v = "ARM_VARIANT_7"   -> 4

\* is_Const(node) && try_encode_val_as_immediate(~get_Const_long(node), res)
try_encode_as_not_immediate(nodes, node) ==
    IF ~is_Const(nodes, node)
    THEN NoImm
    ELSE try_encode_val_as_immediate(BitNot(nodes[node].tv), NoImm)

\* gen_Or that goes to gen_int_binop without trying the idioms
gen_Or_generic(nodes, anch, node) ==
    gen_int_binop_ops(nodes, anch, node, nodes[node].ins[1],
                      nodes[node].ins[2],
                      {"MATCH_COMMUTATIVE", "MATCH_SIZE_NEUTRAL"},
                      <<"arm_Or">>)

\* gen_Or, up to its last be_transform_node call
gen_Or(nodes, anch, node) ==
    LET rotl == be_pattern_is_rotl(nodes, node)
        pkh  == match_pkh(nodes, node)
    IN  IF rotl.ok
        THEN IF is_op(nodes, rotl.right, "Minus")
             THEN gen_Ror(nodes, node, rotl.left,
                          nodes[rotl.right].ins[1], FALSE)
             ELSE gen_Ror(nodes, node, rotl.left, rotl.right, TRUE)
        ELSE IF pkh.ok
        THEN gen_int_binop_ops(nodes, anch, node, pkh.left, pkh.right,
                               {"MATCH_REVERSE"},
                               <<"arm_Pkhbt", "arm_Pkhtb">>)
        ELSE gen_int_binop_ops(nodes, anch, node, nodes[node].ins[1],
                               nodes[node].ins[2],
                               {"MATCH_COMMUTATIVE", "MATCH_SIZE_NEUTRAL"},
                               <<"arm_Or">>)

\* the multiply-subtract test of gen_Sub with ARM_VARIANT_6 as its limit
has_Mls_v6(variant) ==
    VariantRank(variant) >= VariantRank("ARM_VARIANT_6")

\* arm_cg_config.variant >= ARM_VARIANT_6T2
has_Mls(variant) ==
    VariantRank(variant) >= VariantRank("ARM_VARIANT_6T2")

\* gen_Sub, up to its last be_transform_node call
gen_Sub(nodes, anch, node) ==
    LET left  == nodes[node].ins[1]
        right == nodes[node].ins[2]
        block == nodes[node].block
    IN  IF mode_is_float(nodes[node].mode)
        THEN MkPlan("Suf", <<block, left, right>>)
        ELSE IF is_op(nodes, right, "Mul") /\ has_Mls(arm_cg_config.variant)
        THEN MkPlan("Mls", <<block, nodes[right].ins[1],
                             nodes[right].ins[2], left>>)
        ELSE gen_int_binop_ops(nodes, anch, node, left, right,
                               {"MATCH_SIZE_NEUTRAL", "MATCH_REVERSE"},
                               <<"arm_Sub", "arm_Rsb">>)

\* gen_And, up to its last be_transform_node call
gen_And(nodes, anch, node) ==
    LET left  == nodes[node].ins[1]
        right == nodes[node].ins[2]
        e     == try_encode_as_not_immediate(nodes, right)
    IN  IF is_op(nodes, right, "Not")
        THEN gen_int_binop_ops(nodes, anch, node, left, nodes[right].ins[1],
                               {"MATCH_SIZE_NEUTRAL"}, <<"arm_Bic">>)
        ELSE IF is_op(nodes, left, "Not")
        THEN gen_int_binop_ops(nodes, anch, node, right, nodes[left].ins[1],
                               {"MATCH_SIZE_NEUTRAL"}, <<"arm_Bic">>)
        ELSE IF e.ok
        THEN [MkPlan("binop_imm", <<nodes[node].block, left>>) EXCEPT
                !.factory = <<"arm_Bic">>, !.imm = e]
        ELSE gen_int_binop_ops(nodes, anch, node, left, right,
                               {"MATCH_COMMUTATIVE", "MATCH_SIZE_NEUTRAL"},
                               <<"arm_And">>)

\* val <= 31 || (val == 32 && modifier is neither LSL_REG nor ROR_REG)
can_use_shift_constant(v, modifier) ==
    \/ v <= 31
    \/ v = 32 /\ modifier \notin {"ARM_SHF_LSL_REG", "ARM_SHF_ROR_REG"}

\* make_shift, up to its last be_transform_node call; the modes of the
\* model have a modulo shift of 256
make_shift(nodes, anch, node, flags, shift_modifier) ==
    LET block == nodes[node].block
        op1 == IF "MATCH_SIZE_NEUTRAL" \in flags
               THEN be_skip_downconv(nodes, anch, nodes[node].ins[1], TRUE)
               ELSE nodes[node].ins[1]
        op2 == IF "MATCH_SIZE_NEUTRAL" \in flags
               THEN be_skip_downconv(nodes, anch, nodes[node].ins[2], TRUE)
               ELSE nodes[node].ins[2]
    IN  IF /\ is_Const(nodes, op2)
           /\ can_use_shift_constant(get_tarval_long(nodes[op2].tv),
                                     shift_modifier)
        THEN [MkPlan("shift_imm", <<block, op1>>) EXCEPT
                !.factory = <<CASE shift_modifier = "ARM_SHF_LSL_REG"
                                       -> "ARM_SHF_LSL_IMM"
                                [] shift_modifier = "ARM_SHF_LSR_REG"
                                       -> "ARM_SHF_LSR_IMM"
                                [] shift_modifier = "ARM_SHF_ASR_REG"
                                       -> "ARM_SHF_ASR_IMM"
                                [] shift_modifier = "ARM_SHF_ROR_REG"
                                       -> "ARM_SHF_ROR_IMM">>,
                !.idx = get_tarval_long(nodes[op2].tv)]
        ELSE [MkPlan("shift_reg", <<block, op1, op2>>) EXCEPT
                !.factory = <<shift_modifier>>]

(* ---------------------------------------------------------------------- *)
(* The ARM selector: calling convention, function entry and exit, calls    *)
(* ---------------------------------------------------------------------- *)

\* static const arch_register_t *const callee_saves[]
callee_saves == <<"r4", "r5", "r6", "r7", "r8", "r9", "r10", "r11", "lr">>

\* caller_saves without the link register and the floating point registers
caller_saves_gp == <<"r0", "r1", "r2", "r3">>

\* static const arch_register_t *const caller_saves[]
caller_saves ==
    <<"r0", "r1", "r2", "r3", "lr",
      "f0", "f1", "f2", "f3", "f4", "f5", "f6", "f7">>

\* the keys of start_mem and start_val[]: "mem" and the registers
StartKeys ==
    {"mem", "sp", "pc", "r0", "r1", "r2", "r3", "r12", "fl"}
        \cup {callee_saves[i] : i \in DOMAIN callee_saves}
        \cup {caller_saves[i] : i \in DOMAIN caller_saves}

\* arm_decide_calling_convention (arm_cconv.c) on a method type whose
\* parameters and results are 32-bit integers: the first four parameters
\* travel in r0..r3, the others in 4-byte stack slots; the results in r0..r3
arm_decide_calling_convention(type) ==
    LET regs == <<"r0", "r1", "r2", "r3">>
        n    == Len(type.params)
        nr   == IF n < Len(regs) THEN n ELSE Len(regs)
    IN  [parameters |->
            [p \in 1 .. n |->
                IF p <= nr
                THEN [reg0 |-> regs[p], reg1 |-> "none", offset |-> 0,
                      type |-> type.params[p],
                      entity |-> ir_entity("none", 0)]
                ELSE [reg0 |-> "none", reg1 |-> "none",
                      offset |-> 4 * (p - nr - 1),
                      type |-> type.params[p],
                      entity |-> ir_entity("none", 0)]],
         results |->
            [r \in 1 .. Len(type.ress) |->
                [reg0 |-> regs[r], reg1 |-> "none"]],
         n_param_regs |-> nr,
         param_stack_size |-> 4 * (n - nr)]

\* create_stacklayout: every parameter gets its entity in the argument type
create_stacklayout(cc) ==
    [cc EXCEPT !.parameters =
        [p \in DOMAIN cc.parameters |->
            [cc.parameters[p] EXCEPT !.entity = ir_entity("param", p - 1)]]]

\* cconv == NULL
NoCconv ==
    [parameters |-> <<>>, results |-> <<>>, n_param_regs |-> 0,
     param_stack_size |-> 0]

\* heights_reachable_in_block (ana/heights): tgt is reached from the nodes
\* of frontier along operands that stay in the block; the search does not
\* go on from a Phi
RECURSIVE heights_reachable_in_block(_, _, _, _)
heights_reachable_in_block(nodes, seen, frontier, tgt) ==
    IF tgt \in frontier THEN TRUE
    ELSE IF frontier = {} THEN FALSE
    ELSE LET s2 == seen \cup frontier
             nx == UNION {{nodes[n].ins[i] : i \in DOMAIN nodes[n].ins}
                          : n \in {f \in frontier : nodes[f].op # "Phi"}}
         IN  heights_reachable_in_block(nodes, s2,
                 {m \in nx \ s2 : nodes[m].block = nodes[tgt].block}, tgt)

\* irg_walk_graph: the nodes the walk from the End node visits, along
\* operands and blocks
RECURSIVE irg_walk_graph(_, _, _)
irg_walk_graph(nodes, seen, frontier) ==
    IF frontier = {} THEN seen
    ELSE LET s2 == seen \cup frontier
             nx == UNION {{nodes[n].ins[i] : i \in DOMAIN nodes[n].ins}
                            \cup {nodes[n].block}
                          : n \in frontier}
         IN  irg_walk_graph(nodes, s2, (nx \ s2) \ {NULL})

\* link_ops_in_block_walker, lines 566-594: the nodes it collects in the
\* list of their block.  The Builtins of the model are no return_address
\* ones.
link_ops_in_block_walker(nodes, n) ==
    nodes[n].op \in {"Return", "Call", "Alloc", "Free"}

\* get_irn_height (ana/heights): the length of the longest path from the
\* node to a node without users, along users in the node's block that are
\* neither Phi nor Block
RECURSIVE get_irn_height(_, _, _)
get_irn_height(nodes, anch, n) ==
    LET deps == {u \in SrcNodes(nodes, anch) :
                   /\ nodes[u].op \notin {"Block", "Phi", "Anchor"}
                   /\ nodes[u].block = nodes[n].block
                   /\ \E i \in DOMAIN nodes[u].ins : nodes[u].ins[i] = n}
        hs   == {get_irn_height(nodes, anch, u) : u \in deps}
    IN  IF deps = {} THEN 0 ELSE 1 + SetMax(hs)

\* dependent_on, lines 607-611
dependent_on(nodes, n1, n2) ==
    heights_reachable_in_block(nodes, {}, {n1}, n2)

\* the comparison that orders the nodes by their number alone
cmp_call_dependency_idx(nodes, anch, n1, n2) == n2 - n1

\* cmp_call_dependency, lines 620-643; get_irn_idx is the number of the
\* node
cmp_call_dependency(nodes, anch, n1, n2) ==
    IF dependent_on(nodes, n1, n2) THEN 1
    ELSE IF dependent_on(nodes, n2, n1) THEN 0 - 1
    ELSE LET h1 == get_irn_height(nodes, anch, n1)
             h2 == get_irn_height(nodes, anch, n2)
         IN  IF h1 < h2 THEN 1
             ELSE IF h1 > h2 THEN 0 - 1
             ELSE n2 - n1

\* the arrangements of the nodes of S in a row
RECURSIVE Arrangements(_)
Arrangements(S) ==
    IF S = {} THEN {<<>>}
    ELSE UNION {{<<x>> \o p : p \in Arrangements(S \ {x})} : x \in S}

\* QSORT(nodes, n_nodes, cmp_call_dependency): the arrangement in which
\* every node compares below the ones after it; qsort may leave the nodes
\* in any arrangement if the comparison admits none
QSORT(nodes, anch, S) ==
    LET sorted == {p \in Arrangements(S) :
                     \A i, j \in DOMAIN p :
                        i < j => cmp_call_dependency(nodes, anch,
                                                     p[i], p[j]) < 0}
    IN  IF sorted # {} THEN sorted ELSE Arrangements(S)

\* process_ops_in_block that remembers for each node the one after it
process_ops_in_block_reversed(nodes, anch, block) ==
    LET S == {n \in irg_walk_graph(nodes, {}, {nodes[anch].ins[3]}) :
                 /\ link_ops_in_block_walker(nodes, n)
                 /\ nodes[n].block = block}
    IN  {{<<p[n - 1], p[n]>> : n \in 2 .. Len(p)} :
            p \in QSORT(nodes, anch, S)}

\* process_ops_in_block, lines 648-671: the entries <<node, predecessor>>
\* the block contributes to the map, for each outcome of the sort
process_ops_in_block(nodes, anch, block) ==
    LET S == {n \in irg_walk_graph(nodes, {}, {nodes[anch].ins[3]}) :
                 /\ link_ops_in_block_walker(nodes, n)
                 /\ nodes[n].block = block}
    IN  {{<<p[n], p[n - 1]>> : n \in 2 .. Len(p)} :
            p \in QSORT(nodes, anch, S)}

\* be_collect_stacknodes, lines 677-697: the maps it may return; blocks
\* are the blocks still to walk
RECURSIVE be_collect_stacknodes(_, _, _)
be_collect_stacknodes(nodes, anch, blocks) ==
    IF blocks = {} THEN {{}}
    ELSE LET b == CHOOSE b \in blocks : TRUE
         IN  {m1 \cup m2 :
                 m1 \in process_ops_in_block(nodes, anch, b),
                 m2 \in be_collect_stacknodes(nodes, anch, blocks \ {b})}

\* the blocks of the graph
Blocks(nodes, anch) ==
    {b \in SrcNodes(nodes, anch) : nodes[b].op = "Block"}

\* be_get_stack_pred, lines 699-702: ir_nodemap_get on the stack order
be_get_stack_pred(nodes, anch, node) ==
    IF \E e \in stackorder : e[1] = node
    THEN (CHOOSE e \in stackorder : e[1] = node)[2]
    ELSE NULL

\* get_stack_pointer_for that takes every node for the first of its block
get_stack_pointer_for_first(nodes, anch, node) == <<>>

\* get_stack_pointer_for: the stack predecessors it hands to
\* be_transform_node, in call order; it stops at the first one that gets a
\* node_to_stack entry, which is the first Call
RECURSIVE get_stack_pointer_for(_, _, _)
get_stack_pointer_for(nodes, anch, node) ==
    LET stack_pred == be_get_stack_pred(nodes, anch, node)
    IN  IF stack_pred = NULL THEN <<>>
        ELSE IF is_op(nodes, stack_pred, "Call") THEN <<stack_pred>>
        ELSE <<stack_pred>> \o get_stack_pointer_for(nodes, anch, stack_pred)

\* gen_Return, up to its last be_transform_node call: idx is the number of
\* stack predecessors transformed
gen_Return(nodes, anch, node) ==
    LET sp == get_stack_pointer_for(nodes, anch, node)
    IN  [MkPlan("gen_Return",
                <<nodes[node].block, nodes[node].ins[1]>> \o sp
                    \o SubSeq(nodes[node].ins, 2, Len(nodes[node].ins)))
            EXCEPT !.idx = Len(sp)]

\* gen_Call, up to its last be_transform_node call: the operands of a Call
\* are memory, callee and the arguments; the callee is transformed last,
\* and only if it is no Address
gen_Call(nodes, anch, node) ==
    LET sp     == get_stack_pointer_for(nodes, anch, node)
        callee == nodes[node].ins[2]
    IN  [MkPlan("gen_Call",
                <<nodes[node].block, nodes[node].ins[1]>> \o sp
                    \o SubSeq(nodes[node].ins, 3, Len(nodes[node].ins))
                    \o (IF is_op(nodes, callee, "Address") THEN <<>>
                        ELSE <<callee>>))
            EXCEPT !.idx = Len(sp)]

\* transform_proj: the Proj transformer registered for the predecessor's
\* opcode: gen_Proj_Start, gen_Proj_Proj (which goes on to
\* gen_Proj_Proj_Call or gen_Proj_Proj_Start), gen_Proj_Call, and
\* be_duplicate_node, the one of Cond and Switch
transform_proj(nodes, node) ==
    LET pred == nodes[node].ins[1]
        pop  == nodes[pred].op
    IN  IF ~has_proj_transform(pop)
        THEN MkPlan("no_proj_transform", <<>>)
        ELSE CASE pop = "Start" -> MkPlan("gen_Proj_Start", <<>>)
               [] pop = "Call"  -> MkPlan("gen_Proj_Call", <<pred>>)
               [] pop = "Proj"  ->
                    LET pred_pred == nodes[pred].ins[1]
                    IN  IF is_op(nodes, pred_pred, "Call")
                        THEN MkPlan("gen_Proj_Proj_Call", <<pred_pred>>)
                        ELSE IF is_op(nodes, pred_pred, "Start")
                        THEN MkPlan("gen_Proj_Proj_Start",
                                    <<nodes[node].block>>)
                        ELSE MkPlan("panic", <<>>)
               [] OTHER -> MkPlan("be_duplicate_node",
                                  nodes[node].ins \o <<nodes[node].block>>)

\* the transform function registered for the node's opcode, for the
\* opcodes that occur in the source graphs of the model
Plan(nodes, anch, node) ==
    LET nd == nodes[node]
    IN  CASE nd.op = "Block" -> MkPlan("transform_block", <<>>)
          [] nd.op = "End"   -> MkPlan("transform_end", <<nd.block>>)
          [] nd.op = "Phi"   -> MkPlan("be_transform_phi", <<nd.block>>)
          [] nd.op \in {"NoMem", "Pin", "Sync"} ->
                MkPlan("be_duplicate_node", nd.ins \o <<nd.block>>)
          [] nd.op = "Proj"  -> transform_proj(nodes, node)
          [] nd.op = "Start" -> MkPlan("gen_Start", <<nd.block>>)
          [] nd.op = "Jmp"   -> MkPlan("gen_Jmp", <<nd.block>>)
          [] nd.op = "Const" -> MkPlan("gen_Const", <<nd.block>>)
          [] nd.op = "Unknown" -> MkPlan("gen_Unknown", <<nd.block>>)
          [] nd.op = "Add"   -> gen_Add(nodes, anch, node)
          [] nd.op = "Or"    -> gen_Or(nodes, anch, node)
          [] nd.op = "Sub"   -> gen_Sub(nodes, anch, node)
          [] nd.op = "And"   -> gen_And(nodes, anch, node)
          [] nd.op = "Mul"   ->
                MkPlan("gen_Mul", <<nd.block, nd.ins[1], nd.ins[2]>>)
          [] nd.op = "Shl"   ->
                make_shift(nodes, anch, node, {"MATCH_SIZE_NEUTRAL"},
                           "ARM_SHF_LSL_REG")
          [] nd.op = "Shr"   ->
                make_shift(nodes, anch, node, {}, "ARM_SHF_LSR_REG")
          [] nd.op = "Shrs"  ->
                make_shift(nodes, anch, node, {}, "ARM_SHF_ASR_REG")
          [] nd.op = "Return" -> gen_Return(nodes, anch, node)
          [] nd.op = "Call"  -> gen_Call(nodes, anch, node)
          [] nd.op = "Div"   ->
                MkPlan("gen_Div", <<nd.block, nd.ins[2], nd.ins[3]>>)
          [] nd.op = "Minus" -> MkPlan("gen_Minus", <<nd.block, nd.ins[1]>>)
          [] nd.op = "Conv"  -> MkPlan("gen_Conv", <<nd.block, nd.ins[1]>>)
          [] nd.op = "Load"  ->
                MkPlan("gen_Load", <<nd.block, nd.ins[2], nd.ins[1]>>)
          [] nd.op = "Store" ->
                MkPlan("gen_Store",
                       <<nd.block, nd.ins[2], nd.ins[1], nd.ins[3]>>)
          [] nd.op = "Cmp"   ->
                MkPlan("gen_Cmp", <<nd.block, nd.ins[1], nd.ins[2]>>)

(* ---------------------------------------------------------------------- *)
(* What a transform function builds from its transformed operands          *)
(* ---------------------------------------------------------------------- *)

\* be_get_start_proj (be/bearch): the Proj of the new Start node that
\* selects the output of key, created on first use and kept in
\* start_mem / start_val.  st is [new, sv, r]: the nodes created so far by
\* the running transform function (the first one has the id base + 1), the
\* table, the node returned, and the reads of the table.
be_get_start_proj(nodes, base, st, key) ==
    IF st.sv[key].irn # NULL
    THEN [st EXCEPT !.r = st.sv[key].irn,
                    !.log = Append(@, <<"r", key>>)]
    ELSE LET start == nodes[anchor].ins[4]
             id    == base + Len(st.new) + 1
         IN  [new |-> Append(st.new,
                        [new_ir_node("Proj",
                                     IF key = "mem" THEN "M" ELSE "Iu",
                                     <<start>>, nodes[start].block)
                            EXCEPT !.pn = st.sv[key].pos]),
              sv  |-> [st.sv EXCEPT ![key].irn = id],
              r   |-> id,
              log |-> Append(st.log, <<"r", key>>)]

\* the registers of the parameters, reg0 then reg1, in parameter order
RECURSIVE param_out_regs(_)
param_out_regs(params) ==
    IF params = <<>> THEN <<>>
    ELSE (IF Head(params).reg0 # "none" THEN <<Head(params).reg0>> ELSE <<>>)
         \o (IF Head(params).reg1 # "none" THEN <<Head(params).reg1>>
             ELSE <<>>)
         \o param_out_regs(Tail(params))

\* gen_Start without the outputs of the callee-saved registers
gen_Start_out_reqs_params(cc) ==
    <<"none", "sp">> \o param_out_regs(cc.parameters)

\* gen_Start: the requirements it sets on the outputs of the Start node,
\* in the order of the output positions
gen_Start_out_reqs(cc) ==
    <<"none", "sp">> \o param_out_regs(cc.parameters) \o callee_saves

\* the position of a callee-saved register taken from the start of the
\* outputs
callee_save_pos_unbiased(offset, i) == i

\* unsigned idx = start_callee_saves_offset + i;
callee_save_pos(offset, i) == offset + i

\* the offset of the restoring IncSP left at zero
call_frame_release_none(size) == 0

\* -cconv->param_stack_size
call_frame_release(size) == 0 - size

\* pmap_get(ir_node, node_to_stack, node)
pmap_get(map, node) ==
    IF \E e \in map : e[1] = node
    THEN (CHOOSE e \in map : e[1] = node)[2]
    ELSE NULL

\* find_out_for_reg: the first output position (counted from 0) whose
\* requirement is the register's single_req, -1 if there is none
find_out_for_reg(reqs, reg) ==
    LET O == {o \in DOMAIN reqs : reqs[o] = reg}
    IN  IF O = {} THEN 0 - 1 ELSE SetMin(O) - 1

\* be_new_IncSP(sp_reg, block, old_sp, offset, align)
be_new_IncSP(block, old_sp, offset) ==
    [new_ir_node("be_IncSP", "Iu", <<old_sp>>, block) EXCEPT
        !.offset = offset, !.in_reqs = <<"sp">>, !.out_reqs = <<"sp">>]

\* new_r_Proj(pred, mode, pn); a Proj lies in the block of its predecessor
new_r_Proj(nodes, pred, block, mode, pn) ==
    [new_ir_node("Proj", mode, <<pred>>, block) EXCEPT !.pn = pn]

\* the result of the part of a transform function that follows its last
\* be_transform_node call: new are the nodes it creates (the first one gets
\* the id base + 1), result is the node it returns, enq the nodes it hands
\* to be_enqueue_preds, end the node it makes the graph's End, keep the node
\* it hands to keep_alive, sv, scso and n2s what it leaves in start_val,
\* start_callee_saves_offset and node_to_stack, oob tells that it read or
\* wrote past the end of an array, panic that it called panic(), log the
\* writes and reads of start_mem, start_val[] and
\* start_callee_saves_offset it made, in order.
Built(new, result, enq) ==
    [new |-> new, result |-> result, enq |-> enq, end |-> NULL,
     keep |-> NULL, sv |-> start_val, scso |-> start_callee_saves_offset,
     n2s |-> node_to_stack, oob |-> FALSE, panic |-> FALSE, log |-> <<>>]

\* be_make_start_mem / be_make_start_out (be/bearch): the slot gets the
\* output position and loses the Proj it held
be_make_start_out(sv, key, pos) ==
    [sv EXCEPT ![key] = [pos |-> pos, irn |-> NULL]]

\* gen_Start that prepares the slots of memory and stack pointer only
gen_Start_outs_sp_only(sv, pregs) ==
    be_make_start_out(be_make_start_out(sv, "mem", 0), "sp", 1)

\* gen_Start, lines 2216-2230: the slots of start_mem and start_val it
\* prepares: memory, the stack pointer, the registers of the parameters;
\* the other slots keep what they hold
gen_Start_outs(sv, pregs) ==
    [k \in StartKeys |->
        IF k = "mem" THEN be_make_start_out(sv, k, 0)[k]
        ELSE IF k = "sp" THEN be_make_start_out(sv, k, 1)[k]
        ELSE IF \E i \in DOMAIN pregs : pregs[i] = k
        THEN be_make_start_out(sv, k,
                 1 + SetMax({i \in DOMAIN pregs : pregs[i] = k}))[k]
        ELSE sv[k]]

\* gen_Start, after the block is transformed
gen_Start_build(base, block) ==
    LET set    == gen_Start_out_reqs(cconv)
        n_outs == 2 + cconv.n_param_regs + Len(callee_saves)
        pregs  == param_out_regs(cconv.parameters)
    IN  [Built(<<[new_ir_node("arm_Start", "T", <<>>, block) EXCEPT
                    !.out_reqs = [o \in 1 .. n_outs |->
                                    IF o <= Len(set) THEN set[o]
                                    ELSE "none"]]>>,
               base + 1, <<>>)
            EXCEPT !.sv = gen_Start_outs(start_val, pregs),
                   !.scso = 2 + Len(pregs),
                   !.oob = Len(set) # n_outs,
                   !.log = <<<<"w", "mem">>, <<"w", "sp">>>>
                             \o [i \in DOMAIN pregs |-> <<"w", pregs[i]>>]
                             \o <<<<"w", "start_callee_saves_offset">>>>]

\* gen_Proj_Start, gen_Proj_Proj_Start, gen_Proj_Call and
\* gen_Proj_Proj_Call, after their be_transform_node calls
gen_Proj_build(nodes, base, node, plan, res) ==
    LET nd  == nodes[node]
        st0 == [new |-> <<>>, sv |-> start_val, r |-> NULL, log |-> <<>>]
        k   == plan.kind
    IN  CASE k = "gen_Proj_Start" ->
                IF nd.pn \in {0, 1}
                THEN LET st == be_get_start_proj(nodes, base, st0,
                                   IF nd.pn = 0 THEN "mem" ELSE "sp")
                     IN  [Built(st.new, st.r, <<>>) EXCEPT !.sv = st.sv, !.log = st.log]
                ELSE IF nd.pn = 2
                THEN Built(<<new_ir_node("Bad", "T", <<>>,
                                         nodes[anchor].ins[2])>>,
                           base + 1, <<>>)
                ELSE [Built(<<>>, NULL, <<>>) EXCEPT !.panic = TRUE]
          [] k = "gen_Proj_Proj_Start" ->
                LET param == cconv.parameters[nd.pn + 1]
                IN  IF param.reg0 # "none"
                    THEN LET st == be_get_start_proj(nodes, base, st0,
                                                     param.reg0)
                         IN  [Built(st.new, st.r, <<>>) EXCEPT !.sv = st.sv, !.log = st.log]
                    ELSE LET st == be_get_start_proj(nodes, base, st0, "mem")
                             fp == nodes[anchor].ins[5]
                             ld == base + Len(st.new) + 1
                         IN  [Built(st.new \o
                                    <<[new_ir_node("arm_Ldr", "T",
                                                   <<fp, st.r>>, res[1])
                                          EXCEPT !.entity = param.entity],
                                      new_r_Proj(nodes, ld, res[1], "Iu", 0)>>,
                                    ld + 1, <<>>)
                                EXCEPT !.sv = st.sv, !.log = st.log]
          [] k = "gen_Proj_Call" ->
                IF nd.pn = 0
                THEN Built(<<new_r_Proj(nodes, res[1], nodes[res[1]].block,
                                        "M", 0)>>,
                           base + 1, <<>>)
                ELSE [Built(<<>>, NULL, <<>>) EXCEPT !.panic = TRUE]
          [] k = "gen_Proj_Proj_Call" ->
                LET cc   == arm_decide_calling_convention(
                                nodes[plan.dem[1]].type)
                    regn == find_out_for_reg(nodes[res[1]].out_reqs,
                                             cc.results[nd.pn + 1].reg0)
                IN  IF regn < 0
                    THEN [Built(<<>>, NULL, <<>>) EXCEPT !.panic = TRUE]
                    ELSE Built(<<new_r_Proj(nodes, res[1],
                                            nodes[res[1]].block, "Iu",
                                            regn)>>,
                               base + 1, <<>>)

\* the stack pointer get_stack_pointer_for returns once the stack
\* predecessors are transformed: the node_to_stack entry of the Call the
\* chain of predecessors ends with, or the stack pointer output of Start
get_stack_pointer_for_value(nodes, base, plan, st) ==
    LET last == IF plan.idx = 0 THEN NULL ELSE plan.dem[2 + plan.idx]
    IN  IF last # NULL /\ pmap_get(node_to_stack, last) # NULL
        THEN [st EXCEPT !.r = pmap_get(node_to_stack, last)]
        ELSE be_get_start_proj(nodes, base, st, "sp")

\* gen_Return, after its be_transform_node calls: res holds the new block,
\* the new memory, the new stack predecessors and the new result values
gen_Return_build(nodes, base, node, plan, res) ==
    LET n_res == Len(nodes[node].ins) - 1
        st    == get_stack_pointer_for_value(nodes, base, plan,
                     [new |-> <<>>, sv |-> start_val, r |-> NULL, log |-> <<>>])
        first == base + Len(st.new)
        start == nodes[anchor].ins[4]
        n_cs  == Len(callee_saves)
        projs == [i \in 1 .. n_cs |->
                    new_r_Proj(nodes, start, nodes[start].block, "Iu",
                               callee_save_pos(start_callee_saves_offset,
                                               i - 1))]
        retn   == [new_ir_node("arm_Return", "X",
                      <<res[2], st.r>>
                        \o SubSeq(res, 3 + plan.idx, 2 + plan.idx + n_res)
                        \o [i \in 1 .. n_cs |-> first + i],
                      res[1])
                    EXCEPT !.in_reqs =
                      <<"none", "sp">>
                        \o [i \in 1 .. n_res |->
                              IF i <= Len(cconv.results)
                              THEN cconv.results[i].reg0 ELSE "none"]
                        \o callee_saves]
    IN  [Built(st.new \o projs \o <<retn>>, first + n_cs + 1, <<>>)
            EXCEPT !.sv = st.sv, !.oob = n_res > Len(cconv.results),
                   !.log = Append(st.log,
                                  <<"r", "start_callee_saves_offset">>)]

\* be_allocate_in_reqs (be/benode.c): an array of n requirement pointers
\* none of which is assigned yet
be_allocate_in_reqs(n) == [i \in 1 .. n |-> "unassigned"]

\* gen_Call, after its be_transform_node calls: res holds the new block,
\* the new memory, the new stack predecessors, the new arguments and, for
\* an indirect call, the new callee
gen_Call_build(nodes, base, node, plan, res) ==
    LET nd       == nodes[node]
        cc       == arm_decide_calling_convention(nd.type)
        n_params == Len(nd.ins) - 2
        arg(p)   == res[2 + plan.idx + p]
        callee   == nd.ins[2]
        direct   == is_op(nodes, callee, "Address")
        st       == get_stack_pointer_for_value(nodes, base, plan,
                        [new |-> <<>>, sv |-> start_val, r |-> NULL, log |-> <<>>])
        incsp    == base + Len(st.new) + 1
        ps       == [p \in 1 .. n_params |-> p]
        in_regs  == SelectSeq(ps, LAMBDA p : cc.parameters[p].reg0 # "none")
        on_stack == SelectSeq(ps, LAMBDA p : cc.parameters[p].reg0 = "none")
        strs     == [i \in 1 .. Len(on_stack) |->
                       [new_ir_node("arm_Str", "M",
                                    <<incsp, arg(on_stack[i]), res[2]>>,
                                    res[1])
                          EXCEPT !.offset =
                                    cc.parameters[on_stack[i]].offset]]
        n_sync   == IF Len(strs) > 1 THEN 1 ELSE 0
        sync     == IF n_sync = 1
                    THEN <<new_ir_node("Sync", "M",
                                       [i \in 1 .. Len(strs) |-> incsp + i],
                                       res[1])>>
                    ELSE <<>>
        mem_in   == IF Len(strs) = 0 THEN res[2]
                    ELSE IF Len(strs) = 1 THEN incsp + 1
                    ELSE incsp + Len(strs) + 1
        call_id  == incsp + Len(strs) + n_sync + 1
        in       == <<mem_in, incsp>>
                      \o [i \in 1 .. Len(in_regs) |-> arg(in_regs[i])]
                      \o (IF direct THEN <<>> ELSE <<res[Len(res)]>>)
        max_inputs == 3 + cc.n_param_regs
        set_req  == <<"none", "sp">>
                      \o [i \in 1 .. Len(in_regs) |->
                            cc.parameters[in_regs[i]].reg0]
                      \o (IF direct THEN <<>> ELSE <<"gp">>)
        in_req   == [i \in 1 .. max_inputs |->
                       IF i <= Len(set_req) THEN set_req[i]
                       ELSE be_allocate_in_reqs(max_inputs)[i]]
        first    == be_new_IncSP(res[1], st.r, cc.param_stack_size)
        call_nd  == [new_ir_node(IF direct THEN "arm_Bl"
                                 ELSE "arm_LinkMovPC",
                                 "T", in, res[1])
                       EXCEPT !.entity = IF direct THEN nodes[callee].entity
                                         ELSE ir_entity("none", 0),
                              !.shift_modifier = IF direct THEN "none"
                                                 ELSE "ARM_SHF_REG",
                              !.in_reqs = in_req,
                              !.out_reqs = <<"none", first.out_reqs[1]>>
                                              \o caller_saves]
    IN  [Built(st.new \o <<first>> \o strs \o sync
                 \o <<call_nd,
                      new_r_Proj(nodes, call_id, res[1], "Iu", 1),
                      be_new_IncSP(res[1], call_id + 1,
                          call_frame_release(cc.param_stack_size))>>,
               call_id, <<>>)
            EXCEPT !.sv = st.sv,
                   !.log = st.log,
                   !.keep = call_id + 2,
                   !.n2s = node_to_stack \cup {<<node, call_id + 2>>},
                   !.oob = n_params # Len(nd.type.params)]

\* gen_Phi: the requirement handed to be_transform_phi, the class
\* requirement of the gp registers for an integer Phi
gen_Phi(nd) == IF mode_needs_gp_reg(nd.mode) THEN "gp" ELSE "none"

\* be_transform_phi without operand requirements
be_transform_phi_no_in_reqs(nd, block, req) ==
    [exact_copy(nd) EXCEPT !.block = block, !.out_reqs = <<req>>]

\* be_transform_phi: the new Phi keeps the operands of the old one for now;
\* its mode is the mode of the requirement's class (arm_mode_gp is Iu);
\* every operand and the result get the requirement req
be_transform_phi(nd, block, req) ==
    [exact_copy(nd) EXCEPT
        !.block = block,
        !.mode = IF req = "gp" THEN "Iu" ELSE nd.mode,
        !.in_reqs = [i \in DOMAIN be_allocate_in_reqs(Len(nd.ins)) |-> req],
        !.out_reqs = <<req>>]

\* panic(...): nothing is built, the process aborts
Panic == [Built(<<>>, NULL, <<>>) EXCEPT !.panic = TRUE]

mode_is_signed(mode) == mode \in {"Is", "Hs", "Bs", "F", "D"}

\* new_bd_arm_Mov_reg_shift_imm
new_bd_arm_Mov_reg_shift_imm(block, op, modifier, shimm) ==
    [new_ir_node("arm_Mov", "Iu", <<op>>, block)
        EXCEPT !.shift_modifier = modifier, !.shift_immediate = shimm]

\* gen_zero_extension: the nodes created, the last one is the result; the
\* first one has the id base + 1.  <<>> stands for the panic.
gen_zero_extension(block, op, src_bits, base) ==
    IF src_bits = 8
    THEN <<new_bd_arm_imm("arm_And", block, op, 255, 0)>>
    ELSE IF src_bits = 16
    THEN <<new_bd_arm_Mov_reg_shift_imm(block, op, "ARM_SHF_LSL_IMM", 16),
           new_bd_arm_Mov_reg_shift_imm(block, base + 1, "ARM_SHF_LSR_IMM",
                                        16)>>
    ELSE <<>>

\* gen_sign_extension
gen_sign_extension(block, op, src_bits, base) ==
    <<new_bd_arm_Mov_reg_shift_imm(block, op, "ARM_SHF_LSL_IMM",
                                   WordBits - src_bits),
      new_bd_arm_Mov_reg_shift_imm(block, base + 1, "ARM_SHF_ASR_IMM",
                                   WordBits - src_bits)>>

\* gen_extension: <<>> when the operand is returned as it is
gen_extension(block, op, orig_mode, base) ==
    IF get_mode_size_bits(orig_mode) = WordBits THEN <<>>
    ELSE IF mode_is_signed(orig_mode)
    THEN gen_sign_extension(block, op, get_mode_size_bits(orig_mode), base)
    ELSE gen_zero_extension(block, op, get_mode_size_bits(orig_mode), base)

\* gen_Conv, after the operand has been transformed to res[2]
gen_Conv_build(nodes, cfg, base, node, res) ==
    LET nd == nodes[node]
        src_mode == nodes[nd.ins[1]].mode
        dst_mode == nd.mode
        src_bits == get_mode_size_bits(src_mode)
        dst_bits == get_mode_size_bits(dst_mode)
        min_mode == IF src_bits < dst_bits THEN src_mode ELSE dst_mode
        min_bits == get_mode_size_bits(min_mode)
        ext == IF mode_is_signed(min_mode)
               THEN gen_sign_extension(res[1], res[2], min_bits, base)
               ELSE gen_zero_extension(res[1], res[2], min_bits, base)
    IN  IF src_mode = dst_mode THEN Built(<<>>, res[2], <<>>)
        ELSE IF mode_is_float(src_mode) \/ mode_is_float(dst_mode)
        THEN IF cfg.fpu # "ARM_FPU_FPA" THEN Panic
             ELSE IF mode_is_float(src_mode)
             THEN IF mode_is_float(dst_mode)
                  THEN Built(<<new_ir_node("arm_Mvf", dst_mode, <<res[2]>>,
                                           res[1])>>, base + 1, <<>>)
                  ELSE Panic
             ELSE IF ~mode_is_signed(src_mode) THEN Panic
             ELSE Built(<<new_ir_node("arm_FltX", dst_mode, <<res[2]>>,
                                      res[1])>>, base + 1, <<>>)
        ELSE IF src_bits = dst_bits THEN Built(<<>>, res[2], <<>>)
        ELSE IF ext = <<>> THEN Panic
        ELSE Built(ext, base + Len(ext), <<>>)

Build(nodes, cfg, base, node, plan, res, garb) ==
    LET nd == nodes[node]
        k  == plan.kind
    IN  CASE k = "transform_block" ->
                Built(<<exact_copy(nd)>>, base + 1,
                      be_enqueue_preds(nodes, node))
          [] k = "transform_end" ->
                [Built(<<[exact_copy(nd) EXCEPT !.block = res[1]]>>,
                       base + 1, be_enqueue_preds(nodes, node))
                    EXCEPT !.end = base + 1]
          [] k = "be_transform_phi" ->
                Built(<<be_transform_phi(nd, res[1], gen_Phi(nd))>>,
                      base + 1, be_enqueue_preds(nodes, node))
          [] k = "be_duplicate_node" ->
                Built(<<[exact_copy(nd) EXCEPT
                            !.ins = SubSeq(res, 1, Len(nd.ins)),
                            !.block = res[Len(nd.ins) + 1]]>>,
                      base + 1, <<>>)
          [] k = "gen_Start" -> gen_Start_build(base, res[1])
          [] k \in {"gen_Proj_Start", "gen_Proj_Proj_Start",
                    "gen_Proj_Call", "gen_Proj_Proj_Call"} ->
                gen_Proj_build(nodes, base, node, plan, res)
          [] k = "gen_Return" -> gen_Return_build(nodes, base, node, plan, res)
          [] k = "gen_Call" -> gen_Call_build(nodes, base, node, plan, res)
          [] k = "panic" -> [Built(<<>>, NULL, <<>>) EXCEPT !.panic = TRUE]
          [] k = "gen_Unknown" ->
                IF mode_is_float(nd.mode)
                THEN Built(<<new_ir_node("arm_fConst", nd.mode, <<>>,
                                         res[1])>>,
                           base + 1, <<>>)
                ELSE IF mode_needs_gp_reg(nd.mode)
                THEN LET c == create_const_graph_value(res[1], {}, base)
                     IN  Built(c, base + Len(c), <<>>)
                ELSE [Built(<<>>, NULL, <<>>) EXCEPT !.panic = TRUE]
          [] k = "shift_imm" ->
                Built(<<[new_ir_node("arm_Mov", "Iu", <<res[2]>>, res[1])
                            EXCEPT !.shift_modifier = plan.factory[1],
                                   !.shift_immediate = plan.idx]>>,
                      base + 1, <<>>)
          [] k = "shift_reg" ->
                Built(<<[new_ir_node("arm_Mov", "Iu", <<res[2], res[3]>>,
                                     res[1])
                            EXCEPT !.shift_modifier = plan.factory[1]]>>,
                      base + 1, <<>>)
          [] k = "gen_Mul" ->
                IF mode_is_float(nd.mode)
                THEN IF cfg.fpu = "ARM_FPU_FPA"
                     THEN Built(<<new_ir_node("arm_Muf", nd.mode,
                                              <<res[2], res[3]>>, res[1])>>,
                                base + 1, <<>>)
                     ELSE [Built(<<>>, NULL, <<>>) EXCEPT !.panic = TRUE]
                ELSE Built(<<new_ir_node(
                                IF VariantRank(cfg.variant)
                                      < VariantRank("ARM_VARIANT_6")
                                THEN "arm_Mul_v5" ELSE "arm_Mul",
                                "Iu", <<res[2], res[3]>>, res[1])>>,
                           base + 1, <<>>)
          [] k = "Mls" ->
                Built(<<new_ir_node("arm_Mls", "Iu",
                                    <<res[2], res[3], res[4]>>, res[1])>>,
                      base + 1, <<>>)
          [] k = "Suf" ->
                IF cfg.fpu = "ARM_FPU_FPA"
                THEN Built(<<new_ir_node("arm_Suf", nd.mode,
                                         <<res[2], res[3]>>, res[1])>>,
                           base + 1, <<>>)
                ELSE [Built(<<>>, NULL, <<>>) EXCEPT !.panic = TRUE]
          [] k = "gen_Jmp" ->
                Built(<<new_ir_node("arm_Jmp", "X", <<>>, res[1])>>,
                      base + 1, <<>>)
          [] k = "gen_Const" ->
                IF mode_is_float(nd.mode)
                THEN IF cfg.fpu = "ARM_FPU_FPA"
                     THEN Built(<<[new_ir_node("arm_fConst", nd.mode, <<>>,
                                               res[1]) EXCEPT !.tv = nd.tv]>>,
                                base + 1, <<>>)
                     ELSE [Built(<<>>, NULL, <<>>) EXCEPT !.panic = TRUE]
                ELSE LET c == create_const_graph_value(res[1], nd.tv, base)
                     IN  Built(c, base + Len(c), <<>>)
          [] k = "binop_imm" ->
                Built(<<new_bd_arm_imm(plan.factory[plan.idx], res[1],
                                       res[2], plan.imm.imm_8,
                                       plan.imm.rot)>>,
                      base + 1, <<>>)
          [] k = "binop_reg" ->
                LET f == gen_int_binop_ops_fold(nodes, plan, res[1], res[3],
                                                res[2], garb)
                IN  [Built(<<f.node>>, base + 1, <<>>) EXCEPT !.oob = f.oob]
          [] k = "Ror_imm" ->
                Built(<<[new_ir_node("arm_Mov", "Iu", <<res[2]>>, res[1])
                            EXCEPT !.shift_modifier = "ARM_SHF_ROR_IMM",
                                   !.shift_immediate = plan.idx]>>,
                      base + 1, <<>>)
          [] k = "Ror_reg" ->
                IF plan.idx = 1
                THEN Built(<<new_bd_arm_imm("arm_Rsb", res[1], res[3], 32, 0),
                             [new_ir_node("arm_Mov", "Iu",
                                          <<res[2], base + 1>>, res[1])
                                EXCEPT !.shift_modifier = "ARM_SHF_ROR_REG"]>>,
                           base + 2, <<>>)
                ELSE Built(<<[new_ir_node("arm_Mov", "Iu",
                                          <<res[2], res[3]>>, res[1])
                                EXCEPT !.shift_modifier = "ARM_SHF_ROR_REG"]>>,
                           base + 1, <<>>)
          [] k = "Mla" ->
                Built(<<new_ir_node(
                           IF VariantRank(cfg.variant)
                                 < VariantRank("ARM_VARIANT_6")
                           THEN "arm_Mla_v5" ELSE "arm_Mla",
                           "Iu", <<res[2], res[3], res[4]>>, res[1])>>,
                      base + 1, <<>>)
          [] k = "Adf" ->
                IF cfg.fpu = "ARM_FPU_FPA"
                THEN Built(<<new_ir_node("arm_Adf", nd.mode,
                                         <<res[2], res[3]>>, res[1])>>,
                           base + 1, <<>>)
                ELSE [Built(<<>>, NULL, <<>>) EXCEPT !.panic = TRUE]
          [] k = "gen_Div" ->
                IF cfg.fpu = "ARM_FPU_FPA"
                THEN Built(<<new_ir_node("arm_Dvf", nd.resmode,
                                         <<res[2], res[3]>>, res[1])>>,
                           base + 1, <<>>)
                ELSE Panic
          [] k = "gen_Minus" ->
                IF mode_is_float(nd.mode)
                THEN IF cfg.fpu = "ARM_FPU_FPA"
                     THEN Built(<<new_ir_node("arm_Mvf", nd.mode,
                                              <<nd.ins[1]>>, res[1])>>,
                                base + 1, <<>>)
                     ELSE Panic
                ELSE Built(<<new_bd_arm_imm("arm_Rsb", res[1], res[2], 0, 0)>>,
                           base + 1, <<>>)
          [] k = "gen_Conv" -> gen_Conv_build(nodes, cfg, base, node, res)
          [] k = "gen_Load" ->
                IF nd.unaligned = "align_non_aligned" THEN Panic
                ELSE IF mode_is_float(nd.resmode) /\ cfg.fpu # "ARM_FPU_FPA"
                THEN Panic
                ELSE Built(<<new_ir_node(IF mode_is_float(nd.resmode)
                                         THEN "arm_Ldf" ELSE "arm_Ldr",
                                         "T", <<res[2], res[3]>>, res[1])>>,
                           base + 1, <<>>)
          [] k = "gen_Store" ->
                LET mode == nodes[nd.ins[3]].mode
                IN  IF nd.unaligned = "align_non_aligned" THEN Panic
                    ELSE IF mode_is_float(mode) /\ cfg.fpu # "ARM_FPU_FPA"
                    THEN Panic
                    ELSE Built(<<new_ir_node(IF mode_is_float(mode)
                                             THEN "arm_Stf" ELSE "arm_Str",
                                             "M", <<res[2], res[4], res[3]>>,
                                             res[1])>>,
                               base + 1, <<>>)
          [] k = "gen_Cmp" ->
                LET cmp_mode == nodes[nd.ins[1]].mode
                IN  IF mode_is_float(cmp_mode)
                    THEN Built(<<new_ir_node("arm_Cmfe", "b",
                                             <<res[2], res[3]>>, res[1])>>,
                               base + 1, <<>>)
                    ELSE LET e1 == gen_extension(res[1], res[2], cmp_mode,
                                                 base)
                             r1 == IF e1 = <<>> THEN res[2]
                                   ELSE base + Len(e1)
                             e2 == gen_extension(res[1], res[3], cmp_mode,
                                                 base + Len(e1))
                             r2 == IF e2 = <<>> THEN res[3]
                                   ELSE base + Len(e1) + Len(e2)
                         IN  Built(e1 \o e2 \o
                                   <<new_ir_node("arm_Cmp", "b", <<r1, r2>>,
                                                 res[1])>>,
                                   base + Len(e1) + Len(e2) + 1, <<>>)

(* ---------------------------------------------------------------------- *)
(* Spec: be_transform_graph on a family of source graphs                   *)
(* ---------------------------------------------------------------------- *)

\* a node of the source graph; lnk and vis are what earlier passes left in
\* its link and visited fields
SrcNode(op, mode, ins, block, lnk, vis) ==
    [new_ir_node(op, mode, ins, block) EXCEPT !.link = lnk, !.visited = vis]

\* the values of the Const K
ConstVals == {W_0xFF, W_0x3FC, W_0x101, W_0xF000000F}

\* the first operand of the Add: the loop's initial value, the loop's Phi,
\* or the Add itself (a cycle that passes through no Phi)
AddOperands == {5, 6, 7}

\* the opcode of the loop's initial value
InitOps == {"Const", "Mux", "Proj"}

\* A function with one loop:
\*    start block 1:  Start 2, Jmp 3, initial value 5, Const K 9, Mod 12,
\*                    NoMem 13
\*    loop block 4 (preds Jmp 3, Jmp 8):  Phi 6 = (5, Add 7),
\*                    Add 7 = x + K, Jmp 8
\*    end block 10:   End 11 keeping Phi 6 and block 4 alive
\*    Anchor 14 = (end block, start block, End, Start, NoMem)
SourceGraph(kv, x, iop, lnk, vis) ==
    << SrcNode("Block", "BB", <<>>, NULL, lnk, vis),
       SrcNode("Start", "T", <<>>, 1, lnk, vis),
       SrcNode("Jmp", "X", <<>>, 1, lnk, vis),
       SrcNode("Block", "BB", <<3, 8>>, NULL, lnk, vis),
       [SrcNode(iop, "Iu",
                CASE iop = "Const" -> <<>>
                  [] iop = "Mux"   -> <<9, 9, 9>>
                  [] iop = "Proj"  -> <<12>>,
                1, lnk, vis) EXCEPT !.tv = IF iop = "Const" THEN {0} ELSE {}],
       SrcNode("Phi", "Iu", <<5, 7>>, 4, lnk, vis),
       SrcNode("Add", "Iu", <<x, 9>>, 4, lnk, vis),
       SrcNode("Jmp", "X", <<>>, 4, lnk, vis),
       [SrcNode("Const", "Iu", <<>>, 1, lnk, vis) EXCEPT !.tv = kv],
       SrcNode("Block", "BB", <<>>, NULL, lnk, vis),
       SrcNode("End", "X", <<6, 4>>, 10, lnk, vis),
       SrcNode("Mod", "T", <<13, 9, 9>>, 1, lnk, vis),
       SrcNode("NoMem", "M", <<>>, 1, lnk, vis),
       SrcNode("Anchor", "ANY", <<10, 1, 11, 2, 13>>, NULL, lnk, vis) >>

\* arm_transform_graph, up to its call of be_transform_graph, for a graph
\* whose entity has the given method type: a fresh node_to_stack, the
\* calling convention of the function; start_val and
\* start_callee_saves_offset are statics that still hold their zeros
arm_transform_graph(type) ==
    /\ ops_generic = Registered.generic
    /\ ops_generic1 = Registered.generic1
    /\ stackorder \in be_collect_stacknodes(irn, anchor, Blocks(irn, anchor))
    /\ cconv = create_stacklayout(arm_decide_calling_convention(type))
    /\ start_val = [k \in StartKeys |-> [pos |-> 0, irn |-> NULL]]
    /\ start_callee_saves_offset = 0
    /\ node_to_stack = {}

\* the encoder is not running in Spec
EncoderOff ==
    /\ val = {}
    /\ imm = [imm_8 |-> 0, rot |-> 0]
    /\ enc_ret = "none"

\* the state be_transform_graph starts from: irg->visited is 1, and the
\* link and visited fields of the nodes are either fresh or stale
Init ==
    /\ EncoderOff
    /\ \E kv \in ConstVals, x \in AddOperands, iop \in InitOps,
          stale \in BOOLEAN :
            irn = SourceGraph(kv, x, iop, IF stale THEN 1 ELSE NULL,
                              IF stale THEN 1 ELSE 0)
    /\ irg_visited = 1
    /\ arm_cg_config = [variant |-> "ARM_VARIANT_6",
                        fpu |-> "ARM_FPU_SOFTFLOAT"]
    /\ anchor = 14
    /\ arm_transform_graph(method_type(<<>>, <<>>))
    /\ debug \in BOOLEAN
    /\ old_anchor = NULL
    /\ worklist = <<>>
    /\ pc = "start"
    /\ ai = 0
    /\ stack = <<>>
    /\ call = NULL
    /\ ret = NoRet
    /\ fstack = <<>>
    /\ panic_node = NULL
    /\ xlog = <<>>
    /\ retlog = {}
    /\ fixlog = <<>>
    /\ emitlog = {}
    /\ irgs = <<>>
    /\ statlog = <<>>

\* no be_transform_node call is active or pending
Idle == stack = <<>> /\ call = NULL /\ ret = NoRet

\* transform_nodes, lines 250-259: the first epoch, the worklist, the new
\* anchor, whose inputs refer to the anchor itself until they are set
transform_nodes_begin ==
    /\ pc = "start"
    /\ irg_visited' = irg_visited + 1
    /\ worklist' = <<>>
    /\ old_anchor' = anchor
    /\ LET id == Len(irn) + 1
       IN  /\ irn' = Append(irn,
                        new_ir_node("Anchor", "ANY",
                                    [i \in 1 .. Len(irn[anchor].ins) |-> id],
                                    NULL))
           /\ anchor' = id
    /\ pc' = "anchors"
    /\ ai' = 1
    /\ UNCHANGED <<encvars, arm_cg_config, seqvars, opvars, selvars, debug, stack, call, ret, fstack,
                   panic_node, xlog, retlog, fixlog, emitlog>>

\* transform_nodes, lines 263-269: the next anchor input is handed to
\* be_transform_node; pre_transform is NULL for this backend
transform_nodes_anchors ==
    /\ pc = "anchors"
    /\ Idle
    /\ IF ai <= Len(irn[old_anchor].ins)
       THEN call' = irn[old_anchor].ins[ai] /\ pc' = pc
       ELSE call' = call /\ pc' = "worklist"
    /\ UNCHANGED <<encvars, irn, irg_visited, arm_cg_config, seqvars, opvars, selvars, debug, anchor,
                   old_anchor, worklist, ai, stack, ret, fstack, panic_node,
                   xlog, retlog, fixlog, emitlog>>

\* transform_nodes, lines 272-278: the worklist loop, and the second epoch
\* once the worklist is empty
transform_nodes_worklist ==
    /\ pc = "worklist"
    /\ Idle
    /\ IF worklist # <<>>
       THEN /\ call' = Head(worklist)
            /\ worklist' = Tail(worklist)
            /\ UNCHANGED <<pc, irg_visited, ai>>
       ELSE /\ irg_visited' = irg_visited + 1
            /\ pc' = "fix"
            /\ ai' = Len(irn[anchor].ins)
            /\ UNCHANGED <<call, worklist>>
    /\ UNCHANGED <<encvars, irn, arm_cg_config, seqvars, opvars, selvars, debug, anchor, old_anchor,
                   stack, ret, fstack, panic_node, xlog, retlog, fixlog,
                   emitlog>>

\* the process has ended: normally, by panic(), by a failed assert, by a
\* call through a null function pointer, or by exhausting the call stack
Ended == pc \in {"done", "panic", "abort", "segv", "overflow"}

\* be_transform_node, from its entry to the call of the transform function.
\* A node without transformer ends the process: with DEBUG_libfirm by
\* panic(), without it by the call through the null pointer, which traps.
be_transform_node ==
    /\ pc \in {"anchors", "worklist"}
    /\ call # NULL
    /\ \E node \in {call} :
       \E marked \in {IF debug
                      THEN be_set_transformed_node(irn, irg_visited, node, NULL)
                      ELSE irn} :
           IF be_is_transformed(irn, irg_visited, node)
           THEN IF debug /\ irn[node].link = NULL
                THEN /\ pc' = "abort"
                     /\ UNCHANGED <<irn, call, ret, stack, xlog, panic_node>>
                ELSE /\ ret' = [node |-> node, val |-> irn[node].link]
                     /\ call' = NULL
                     /\ UNCHANGED <<irn, pc, stack, xlog, panic_node>>
           ELSE IF ~has_transform(irn[node].op)
           THEN /\ irn' = marked
                /\ pc' = IF debug THEN "panic" ELSE "segv"
                /\ panic_node' = IF debug THEN node ELSE panic_node
                /\ UNCHANGED <<call, ret, stack, xlog>>
           ELSE IF Len(stack) >= MaxDepth
           THEN /\ pc' = "overflow"
                /\ UNCHANGED <<irn, call, ret, stack, xlog, panic_node>>
           ELSE \E plan \in {Plan(marked, old_anchor, node)} :
                    /\ irn' = marked
                    /\ xlog' = Append(xlog, node)
                    /\ IF plan.kind = "no_proj_transform"
                       THEN /\ pc' = IF debug THEN "panic" ELSE "segv"
                            /\ panic_node' = IF debug THEN node
                                             ELSE panic_node
                            /\ UNCHANGED <<call, ret, stack>>
                       ELSE /\ stack' = Append(stack,
                                          [node |-> node, k |-> 1,
                                           res |-> <<>>, plan |-> plan])
                            /\ call' = NULL
                            /\ UNCHANGED <<pc, ret, panic_node>>
    /\ UNCHANGED <<encvars, irg_visited, arm_cg_config, seqvars, opvars, selvars, debug, anchor,
                   old_anchor, worklist, ai, fstack, retlog, fixlog, emitlog>>

\* what a read past the operands of a node may yield
Garbage == {NULL, 1}

\* new_node = transform(node): the innermost transform function goes on to
\* its next be_transform_node call, or, after the last one, builds its
\* result, which be_transform_node stores (line 177)
transform ==
    /\ pc \in {"anchors", "worklist"}
    /\ stack # <<>>
    /\ call = NULL
    /\ ret = NoRet
    /\ \E f \in {stack[Len(stack)]} :
           IF f.k <= Len(f.plan.dem)
           THEN /\ call' = f.plan.dem[f.k]
                /\ UNCHANGED <<irn, worklist, pc, stack, ret, panic_node,
                               emitlog, start_val, start_callee_saves_offset,
                               node_to_stack, statlog>>
           ELSE \E garb \in Garbage :
                \E b \in {Build(irn, arm_cg_config, Len(irn), f.node, f.plan,
                                f.res, garb)} :
                \E created \in {irn \o b.new} :
                    IF b.panic
                    THEN /\ pc' = "panic"
                         /\ UNCHANGED <<irn, worklist, stack, call, ret,
                                        panic_node, emitlog, start_val,
                                        start_callee_saves_offset,
                                        node_to_stack, statlog>>
                    ELSE IF b.oob /\ debug
                    THEN /\ pc' = "abort"
                         /\ UNCHANGED <<irn, worklist, stack, call, ret,
                                        panic_node, emitlog, start_val,
                                        start_callee_saves_offset,
                                        node_to_stack, statlog>>
                    ELSE /\ irn' = be_set_transformed_node(
                                      IF b.end # NULL
                                      THEN set_irg_end(created, anchor, b.end)
                                      ELSE IF b.keep # NULL
                                      THEN keep_alive(created, anchor, b.keep)
                                      ELSE created,
                                      irg_visited, f.node, b.result)
                         /\ worklist' = worklist \o b.enq
                         /\ stack' = SubSeq(stack, 1, Len(stack) - 1)
                         /\ ret' = [node |-> f.node, val |-> b.result]
                         /\ emitlog' = emitlog \cup
                                 {<<f.node, Len(irn) + i>> :
                                      i \in 1 .. Len(b.new)}
                         /\ start_val' = b.sv
                         /\ start_callee_saves_offset' = b.scso
                         /\ node_to_stack' = b.n2s
                         /\ statlog' = statlog \o b.log
                         /\ UNCHANGED <<pc, call, panic_node>>
    /\ UNCHANGED <<encvars, irg_visited, arm_cg_config, irgs, opvars, cconv,
                   stackorder, debug, anchor, old_anchor, ai, fstack, xlog,
                   retlog, fixlog>>

\* return new_node: the caller receives the value; transform_nodes stores
\* it in the new anchor (line 265) or drops it (line 274)
be_transform_node_return ==
    /\ pc \in {"anchors", "worklist"}
    /\ ret # NoRet
    /\ retlog' = retlog \cup {<<ret.node, ret.val>>}
    /\ ret' = NoRet
    /\ IF stack # <<>>
       THEN /\ stack' = [stack EXCEPT ![Len(stack)].res = Append(@, ret.val),
                                      ![Len(stack)].k = @ + 1]
            /\ UNCHANGED <<irn, ai>>
       ELSE IF pc = "anchors"
       THEN /\ irn' = set_irn_n(irn, anchor, ai, ret.val)
            /\ ai' = ai + 1
            /\ UNCHANGED stack
       ELSE UNCHANGED <<irn, ai, stack>>
    /\ UNCHANGED <<encvars, irg_visited, arm_cg_config, seqvars, opvars, selvars, debug, anchor,
                   old_anchor, worklist, pc, call, fstack, panic_node, xlog,
                   fixlog, emitlog>>

\* fix_loops whose entry test neither finds nor leaves a mark
fix_loops_enter_unmarked(nodes, epoch, node) ==
    [skip |-> FALSE, nodes |-> nodes]

\* if (irn_visited_else_mark(node)) return;
fix_loops_enter(nodes, epoch, node) ==
    [skip  |-> irn_visited(nodes, epoch, node),
     nodes |-> [nodes EXCEPT ![node].visited = epoch]]

\* the rewiring of fix_loops that leaves every operand as it is
fix_loops_in_keep(nodes, in) == in

\* lines 220-227: the operand fix_loops leaves in the place of in
fix_loops_in(nodes, in) ==
    LET nw == nodes[in].link
    IN  IF nw # NULL /\ nw # in THEN nw ELSE in

\* lines 207-214: the block fix_loops leaves as the node's block
fix_loops_block(nodes, node) ==
    LET block     == nodes[node].block
        new_block == nodes[block].link
    IN  IF new_block # NULL THEN new_block ELSE block

\* the call fix_loops(node) made with the graph nodes and the active calls
\* fst: it returns at once on a marked node, and else marks the node and
\* starts on its block (position 0) or, for a Block, on its first operand
fix_loops_call(nodes, fst, node) ==
    LET e == fix_loops_enter(nodes, irg_visited, node)
    IN  IF e.skip
        THEN /\ irn' = nodes
             /\ fstack' = fst
             /\ UNCHANGED <<pc, fixlog>>
        ELSE IF Len(fst) >= MaxDepth
        THEN /\ pc' = "overflow"
             /\ UNCHANGED <<irn, fstack, fixlog>>
        ELSE /\ irn' = e.nodes
             /\ fstack' = Append(fst,
                            [node |-> node,
                             i |-> IF is_Block(nodes, node) THEN 1 ELSE 0])
             /\ fixlog' = Append(fixlog, node)
             /\ UNCHANGED pc

\* transform_nodes, lines 279-285: fix_loops on the inputs of the new
\* anchor, last input first
transform_nodes_fix ==
    /\ pc = "fix"
    /\ fstack = <<>>
    /\ IF ai >= 1
       THEN /\ fix_loops_call(irn, fstack, irn[anchor].ins[ai])
            /\ ai' = ai - 1
            /\ UNCHANGED worklist
       ELSE /\ pc' = "done"
            /\ worklist' = <<>>
            /\ UNCHANGED <<irn, ai, fstack, fixlog>>
    /\ UNCHANGED <<encvars, irg_visited, arm_cg_config, seqvars, opvars, selvars, debug, anchor,
                   old_anchor, stack, call, ret, panic_node, xlog, retlog,
                   emitlog>>

\* one step of the innermost fix_loops call: its block, then its operands
\* in order, each followed by the recursive call, then the return; an
\* operand that is a null pointer is dereferenced (get_irn_link), which
\* traps
fix_loops ==
    /\ pc = "fix"
    /\ fstack # <<>>
    /\ LET top  == Len(fstack)
           f    == fstack[top]
           node == f.node
           adv  == [fstack EXCEPT ![top].i = @ + 1]
       IN  IF f.i = 0
           THEN LET block == fix_loops_block(irn, node)
                IN  fix_loops_call([irn EXCEPT ![node].block = block],
                                   adv, block)
           ELSE IF f.i <= Len(irn[node].ins) /\ irn[node].ins[f.i] = NULL
           THEN /\ pc' = "segv"
                /\ UNCHANGED <<irn, fstack, fixlog>>
           ELSE IF f.i <= Len(irn[node].ins)
           THEN LET in == fix_loops_in(irn, irn[node].ins[f.i])
                IN  fix_loops_call(set_irn_n(irn, node, f.i, in), adv, in)
           ELSE /\ fstack' = SubSeq(fstack, 1, top - 1)
                /\ UNCHANGED <<irn, pc, fixlog>>
    /\ UNCHANGED <<encvars, irg_visited, arm_cg_config, seqvars, opvars, selvars, debug, anchor,
                   old_anchor, worklist, ai, stack, call, ret, panic_node,
                   xlog, retlog, emitlog>>

Next ==
    \/ transform_nodes_begin
    \/ transform_nodes_anchors
    \/ transform_nodes_worklist
    \/ be_transform_node
    \/ transform
    \/ be_transform_node_return
    \/ transform_nodes_fix
    \/ fix_loops

Spec == Init /\ [][Next]_vars

\* the process is sequential: a step that can be taken is taken
FairSpec == Init /\ [][Next]_vars /\ WF_vars(Next)

(* ---------------------------------------------------------------------- *)
(* The functions handed to the selector                                    *)
(* ---------------------------------------------------------------------- *)

\* a fresh node of a source graph
Src(op, mode, ins, block) == SrcNode(op, mode, ins, block, NULL, 0)

\* a Const node of mode Iu with the tarval tv
SrcConst(tv) == [Src("Const", "Iu", <<>>, 1) EXCEPT !.tv = tv]

\* a Proj node with the number pn
SrcProj(pred, mode, pn) == [Src("Proj", mode, <<pred>>, 1) EXCEPT !.pn = pn]

\* ARM_VARIANT_* of arm_cg_config.variant
Variants == {"ARM_VARIANT_4", "ARM_VARIANT_5T", "ARM_VARIANT_6",
             "ARM_VARIANT_6T2", "ARM_VARIANT_7"}

\* the most parameters a function of the model has: one more than there
\* are argument registers
MaxParams == 5

\* the first node of the body of a function
Body == 7 + MaxParams

\* the parameter i of the function, counted from 0
Param(i) == 7 + i

\* A function of one block:
\*    block 1:  Start 2, initial memory 3 = Proj(Start, M),
\*              frame 4 = Proj(Start, P_frame_base),
\*              args 5 = Proj(Start, T_args), NoMem 6,
\*              parameter i = Proj(args, i) at 7 + i,
\*              the body from node 12 on,
\*              Return(mem, ress) right after the body
\*    the end block (pred Return), End, and the Anchor = (end block,
\*    start block, End, Start, frame, initial memory, args, NoMem)
\* keep are the nodes the End keeps alive.
FuncGraph(body, mem, ress, keep) ==
    LET retn == Body + Len(body)
    IN  << Src("Block", "BB", <<>>, NULL),
           Src("Start", "T", <<>>, 1),
           SrcProj(2, "M", 0),
           SrcProj(2, "P", 1),
           SrcProj(2, "T", 2),
           Src("NoMem", "M", <<>>, 1) >>
        \o [i \in 1 .. MaxParams |-> SrcProj(5, "Iu", i - 1)]
        \o body
        \o << Src("Return", "X", <<mem>> \o ress, 1),
              Src("Block", "BB", <<retn>>, NULL),
              Src("End", "X", keep, retn + 1),
              Src("Anchor", "ANY", <<retn + 1, 1, retn + 2, 2, 4, 3, 5, 6>>,
                  NULL) >>

\* the Return, the End and the root of the body (its last node) of a
\* function graph
ReturnOf(nodes) == Len(nodes) - 3

EndOf(nodes) == Len(nodes) - 1

RootOf(nodes) == Len(nodes) - 4

\* the method type of a function with n integer parameters and r results
IntType(n, r) ==
    method_type([i \in 1 .. n |-> "Iu"], [i \in 1 .. r |-> "Iu"])

\* a function of the model: its graph, its method type, the ISA variant
\* it is compiled for, and the family it belongs to
Func(fam, nodes, type, variant) ==
    [fam |-> fam, irn |-> nodes, type |-> type, variant |-> variant]

\* Operand folding: the root is an Add (commutative), a Sub (reversible) or
\* an And with a Not as second operand (Bic: neither), of operands chosen
\* among a parameter, an encodable Const (0xFF), a Const that is not
\* encodable (0x101), a shift by a constant (a Mov with LSL_IMM), a shift
\* by a register (a Mov with LSL_REG) and an Unknown (a Mov in immediate
\* form)
FoldOps == {"Add", "Sub", "Bic"}

FoldLeft == {Param(0), Body, Body + 3, Body + 4, Body + 5}

FoldRight == {Param(1), Body + 1, Body + 3, Body + 4, Body + 5}

FoldGraph(op, l, r) ==
    FuncGraph(<< SrcConst(W_0xFF),
                 SrcConst(W_0x101),
                 SrcConst({0, 1}),
                 Src("Shl", "Iu", <<Param(0), Body + 2>>, 1),
                 Src("Shl", "Iu", <<Param(0), Param(1)>>, 1),
                 Src("Unknown", "Iu", <<>>, 1),
                 Src("Not", "Iu", <<r>>, 1),
                 Src(IF op = "Bic" THEN "And" ELSE op, "Iu",
                     <<l, IF op = "Bic" THEN Body + 6 ELSE r>>, 1) >>,
              3, <<Body + 7>>, <<>>)

FoldFuncs ==
    {Func("fold", FoldGraph(op, l, r), IntType(2, 1), "ARM_VARIANT_6") :
        op \in FoldOps, l \in FoldLeft, r \in FoldRight}

\* Rotates: Or or Add of Shl(a, x) and Shr(a, 32 - x), in both orders
RotlAmounts == 1 .. (WordBits - 1)

RotlGraph(op, x, swap) ==
    FuncGraph(<< SrcConst(FromU8(x)),
                 SrcConst(FromU8(WordBits - x)),
                 Src("Shl", "Iu", <<Param(0), Body>>, 1),
                 Src("Shr", "Iu", <<Param(0), Body + 1>>, 1),
                 Src(op, "Iu",
                     IF swap THEN <<Body + 3, Body + 2>>
                     ELSE <<Body + 2, Body + 3>>, 1) >>,
              3, <<Body + 4>>, <<>>)

RotlFuncs ==
    {Func("rotl", RotlGraph(op, x, swap), IntType(1, 1), "ARM_VARIANT_6") :
        op \in {"Or", "Add"}, x \in RotlAmounts, swap \in BOOLEAN}

\* Packs: Or or Add of And(a, 0x0000FFFF) and And(b, 0xFFFF0000), in both
\* orders, a and b chosen among the parameters, an encodable Const, a shift
\* by a constant, a shift by a register and an Unknown
PkhLow == {Param(0), Body + 2, Body + 4, Body + 5, Body + 6}

PkhHigh == {Param(1), Body + 2, Body + 4, Body + 6}

PkhGraph(op, a, b, swap) ==
    FuncGraph(<< SrcConst(0 .. 15),
                 SrcConst(16 .. 31),
                 SrcConst(W_0xFF),
                 SrcConst({0, 1}),
                 Src("Shl", "Iu", <<Param(0), Body + 3>>, 1),
                 Src("Shl", "Iu", <<Param(0), Param(1)>>, 1),
                 Src("Unknown", "Iu", <<>>, 1),
                 Src("And", "Iu", <<a, Body>>, 1),
                 Src("And", "Iu", <<b, Body + 1>>, 1),
                 Src(op, "Iu",
                     IF swap THEN <<Body + 8, Body + 7>>
                     ELSE <<Body + 7, Body + 8>>, 1) >>,
              3, <<Body + 9>>, <<>>)

PkhFuncs ==
    {Func("pkh", PkhGraph("Or", a, b, swap), IntType(2, 1), "ARM_VARIANT_6") :
        a \in PkhLow, b \in PkhHigh, swap \in BOOLEAN}
    \cup
    {Func("pkh", PkhGraph("Add", Param(0), Param(1), swap), IntType(2, 1),
          "ARM_VARIANT_6") : swap \in BOOLEAN}

\* Multiply-accumulate: Add or Sub of Mul(p0, p1) and c, in both orders, c
\* a parameter, the Const 1 or an Unknown, for every ISA variant
MulOther == {Param(2), Body, Body + 1}

MulGraph(op, c, swap) ==
    FuncGraph(<< SrcConst({0}),
                 Src("Unknown", "Iu", <<>>, 1),
                 Src("Mul", "Iu", <<Param(0), Param(1)>>, 1),
                 Src(op, "Iu",
                     IF swap THEN <<c, Body + 2>> ELSE <<Body + 2, c>>, 1) >>,
              3, <<Body + 3>>, <<>>)

MulFuncs ==
    {Func("mul", MulGraph(op, c, swap), IntType(3, 1), v) :
        op \in {"Add", "Sub"}, c \in MulOther, swap \in BOOLEAN,
        v \in Variants}

\* Calls: a function with nparams parameters that makes one call with
\* nargs arguments and nres results, to a known function (the callee is an
\* Address) or through its first argument's value; the arguments are the
\* function's parameters, then Consts; the function returns the call's
\* result or, when the call has none, its last parameter
CallParams == {0, 2, 5}

CallArgs == {0, 2, 5, 6}

CallGraph(nparams, nargs, nres, direct) ==
    LET arg(i) == IF i <= nparams THEN Param(i - 1) ELSE Body
        callee == IF direct THEN Body + 1 ELSE arg(1)
    IN  FuncGraph(<< SrcConst(W_0xFF),
                     [Src("Address", "P", <<>>, 1) EXCEPT
                         !.entity = ir_entity("function", 0)],
                     [Src("Call", "T",
                          <<3, callee>> \o [i \in 1 .. nargs |-> arg(i)], 1)
                        EXCEPT !.type = IntType(nargs, nres)],
                     SrcProj(Body + 2, "M", 0),
                     SrcProj(Body + 2, "T", 1),
                     [Src("Proj", "Iu", <<Body + 4>>, 1) EXCEPT !.pn = 0] >>,
                  Body + 3,
                  IF nres > 0 THEN <<Body + 5>>
                  ELSE IF nparams > 0 THEN <<Param(nparams - 1)>>
                  ELSE <<>>,
                  <<>>)

CallFuncs ==
    {Func("call", CallGraph(np, na, nr, d),
          IntType(np, IF nr > 0 \/ np > 0 THEN 1 ELSE 0), "ARM_VARIANT_6") :
        np \in CallParams, na \in CallArgs, nr \in {0, 1}, d \in BOOLEAN}

\* the functions of the model
SelFuncs == FoldFuncs \cup RotlFuncs \cup PkhFuncs \cup MulFuncs \cup CallFuncs

\* arm_transform_graph on one of the functions, at its call of
\* be_transform_graph
InitSel ==
    /\ EncoderOff
    /\ \E f \in SelFuncs :
          /\ irn = f.irn
          /\ anchor = Len(f.irn)
          /\ arm_cg_config = [variant |-> f.variant,
                              fpu |-> "ARM_FPU_SOFTFLOAT"]
          /\ arm_transform_graph(f.type)
          /\ debug \in (IF f.fam \in {"fold", "pkh"} THEN BOOLEAN
                        ELSE {FALSE})
    /\ irg_visited = 1
    /\ old_anchor = NULL
    /\ worklist = <<>>
    /\ pc = "start"
    /\ ai = 0
    /\ stack = <<>>
    /\ call = NULL
    /\ ret = NoRet
    /\ fstack = <<>>
    /\ panic_node = NULL
    /\ xlog = <<>>
    /\ retlog = {}
    /\ fixlog = <<>>
    /\ emitlog = {}
    /\ irgs = <<>>
    /\ statlog = <<>>

SpecSel == InitSel /\ [][Next]_vars


(* ---------------------------------------------------------------------- *)
(* Functions with floating-point and memory operations                     *)
(* ---------------------------------------------------------------------- *)

\* arm_cg_config.fpu
Fpus == {"ARM_FPU_SOFTFLOAT", "ARM_FPU_FPA"}

\* the opcode of the second float operand
FpuOperandOps == {"Unknown", "Const"}

\* the operation under test, the node Body + 3 of FpuGraph: its operands
\* are the float value Body (an Unknown), the float value Body + 1, the
\* signed integer Body + 2 and the parameters
FpuRoots ==
    {Src(op, "F", <<Body, Body + 1>>, 1) : op \in {"Add", "Sub", "Mul"}}
    \cup {[Src("Div", "T", <<3, Body, Body + 1>>, 1) EXCEPT !.resmode = "F"]}
    \cup {Src("Minus", "F", <<Body + 1>>, 1),
          Src("Minus", "Iu", <<Param(0)>>, 1)}
    \cup {Src("Conv", dst, <<Body + 1>>, 1) : dst \in {"F", "D", "Is"}}
    \cup {Src("Conv", dst, <<Body + 2>>, 1) : dst \in {"F", "Hs", "Bu"}}
    \cup {Src("Conv", "F", <<Param(0)>>, 1)}
    \cup {[Src("Load", "T", <<3, Param(0)>>, 1)
             EXCEPT !.resmode = m, !.unaligned = u] :
            m \in {"F", "Iu"},
            u \in {"align_is_aligned", "align_non_aligned"}}
    \cup {[Src("Store", "M", <<3, Param(0), v>>, 1) EXCEPT !.unaligned = u] :
            v \in {Body + 1, Param(1)},
            u \in {"align_is_aligned", "align_non_aligned"}}
    \cup {Src("Cmp", "b", <<Body, Body + 1>>, 1),
          Src("Cmp", "b", <<Param(0), Body + 2>>, 1)}

FpuGraph(kind, root) ==
    FuncGraph(<< Src("Unknown", "F", <<>>, 1),
                 [Src(kind, "F", <<>>, 1) EXCEPT !.tv = W_0xFF],
                 Src("Unknown", "Is", <<>>, 1),
                 root >>,
              3, <<>>, <<Body + 3>>)

FpuFuncs ==
    {Func("fpu", FpuGraph(kind, root), IntType(2, 0), "ARM_VARIANT_6") :
        kind \in FpuOperandOps, root \in FpuRoots}

\* arm_transform_graph on one of these functions, for either FPU
InitFpu ==
    /\ EncoderOff
    /\ \E f \in FpuFuncs : \E fpu \in Fpus :
          /\ irn = f.irn
          /\ anchor = Len(f.irn)
          /\ arm_cg_config = [variant |-> f.variant, fpu |-> fpu]
          /\ arm_transform_graph(f.type)
    /\ debug \in BOOLEAN
    /\ irg_visited = 1
    /\ old_anchor = NULL
    /\ worklist = <<>>
    /\ pc = "start"
    /\ ai = 0
    /\ stack = <<>>
    /\ call = NULL
    /\ ret = NoRet
    /\ fstack = <<>>
    /\ panic_node = NULL
    /\ xlog = <<>>
    /\ retlog = {}
    /\ fixlog = <<>>
    /\ emitlog = {}
    /\ irgs = <<>>
    /\ statlog = <<>>

SpecFpu == InitFpu /\ [][Next]_vars


(* ---------------------------------------------------------------------- *)
(* Functions with several calls in one block                               *)
(* ---------------------------------------------------------------------- *)

\* Three calls A, B, C of one block (nodes Body + 2, + 4, + 6), each
\* followed by the Proj of its memory result; the memory operand of a call
\* is the initial memory or the memory result of another call; the Return
\* takes the Sync of the three memory results.
StackGraph(memA, memB, memC, direct, nargs) ==
    LET callee == IF direct THEN Body + 1 ELSE Param(0)
        ncall(mem) == [Src("Call", "T",
                           <<mem, callee>> \o [i \in 1 .. nargs |-> Body], 1)
                         EXCEPT !.type = IntType(nargs, 0)]
    IN  FuncGraph(<< SrcConst(W_0xFF),
                     [Src("Address", "P", <<>>, 1) EXCEPT
                         !.entity = ir_entity("function", 0)],
                     ncall(memA), SrcProj(Body + 2, "M", 0),
                     ncall(memB), SrcProj(Body + 4, "M", 0),
                     ncall(memC), SrcProj(Body + 6, "M", 0),
                     Src("Sync", "M", <<Body + 3, Body + 5, Body + 7>>, 1) >>,
                  Body + 8, <<>>, <<>>)

\* the memory operands of the three calls depend on each other in no cycle
StackShapes ==
    LET step(m, x) == IF x = 3 THEN 3 ELSE m[x - 1]
    IN  {m \in [{Body + 2, Body + 4, Body + 6} ->
                  {3, Body + 3, Body + 5, Body + 7}] :
            \A c \in DOMAIN m : step(m, step(m, m[c])) = 3}

\* A function that never returns: the start block 1 ends with a Jmp into
\* the loop block Body + 1, which ends with a Jmp to itself.  The loop
\* block holds the Phi of the memory (Body + 2), the Phi of a value
\* (Body + 9), the call A of the value Phi, whose result goes back into
\* the value Phi, and the call B; the memory operand of B is the memory
\* Phi or the memory result of A.  The End keeps the loop block and both
\* Phis alive.
LoopGraph(memB, direct) ==
    LET L == Body + 1
        callee == IF direct THEN Body + 4 ELSE Param(0)
    IN  << Src("Block", "BB", <<>>, NULL),
           Src("Start", "T", <<>>, 1),
           SrcProj(2, "M", 0),
           SrcProj(2, "P", 1),
           SrcProj(2, "T", 2),
           Src("NoMem", "M", <<>>, 1) >>
        \o [i \in 1 .. MaxParams |-> SrcProj(5, "Iu", i - 1)]
        \o << Src("Jmp", "X", <<>>, 1),
              Src("Block", "BB", <<Body, Body + 10>>, NULL),
              Src("Phi", "M", <<3, Body + 8>>, L),
              SrcConst(W_0xFF),
              [Src("Address", "P", <<>>, 1) EXCEPT
                  !.entity = ir_entity("function", 0)],
              [Src("Call", "T", <<Body + 2, callee, Body + 9>>, L)
                 EXCEPT !.type = IntType(1, 1)],
              [SrcProj(Body + 5, "M", 0) EXCEPT !.block = L],
              [Src("Call", "T", <<memB, callee>>, L)
                 EXCEPT !.type = IntType(0, 0)],
              [SrcProj(Body + 7, "M", 0) EXCEPT !.block = L],
              Src("Phi", "Iu", <<Body + 3, Body + 12>>, L),
              Src("Jmp", "X", <<>>, L),
              [SrcProj(Body + 5, "T", 1) EXCEPT !.block = L],
              [SrcProj(Body + 11, "Iu", 0) EXCEPT !.block = L],
              Src("Block", "BB", <<>>, NULL),
              Src("End", "X", <<L, Body + 2, Body + 9>>, Body + 13),
              Src("Anchor", "ANY",
                  <<Body + 13, 1, Body + 14, 2, 4, 3, 5, 6>>, NULL) >>

\* Three calls of which the third has no user and is kept alive by the
\* End: A (Body + 2) and B (Body + 4) are in front of the Return, which
\* takes the memory result of B, and the call C (Body + 6) comes after the
\* Return in the stack order.
KeepGraph(memB, memC) ==
    LET ncall(mem) == [Src("Call", "T", <<mem, Body + 1, Body>>, 1)
                         EXCEPT !.type = IntType(1, 0)]
    IN  FuncGraph(<< SrcConst(W_0xFF),
                     [Src("Address", "P", <<>>, 1) EXCEPT
                         !.entity = ir_entity("function", 0)],
                     ncall(3), SrcProj(Body + 2, "M", 0),
                     ncall(memB), SrcProj(Body + 4, "M", 0),
                     ncall(memC) >>,
                  Body + 5, <<>>, <<Body + 6>>)

StackFuncs ==
    {Func("stack",
          StackGraph(m[Body + 2], m[Body + 4], m[Body + 6], d, na),
          IntType(1, 0), "ARM_VARIANT_6") :
        m \in StackShapes, d \in BOOLEAN, na \in {0, MaxParams}}
    \cup {Func("loop", LoopGraph(mb, d), IntType(1, 0), "ARM_VARIANT_6") :
            mb \in {Body + 2, Body + 6}, d \in BOOLEAN}
    \cup {Func("keep", KeepGraph(mb, mc), IntType(1, 0), "ARM_VARIANT_6") :
            mb \in {3, Body + 3}, mc \in {3, Body + 5}}

\* arm_transform_graph on one of these functions
InitStack ==
    /\ EncoderOff
    /\ \E f \in StackFuncs :
          /\ irn = f.irn
          /\ anchor = Len(f.irn)
          /\ arm_cg_config = [variant |-> f.variant,
                              fpu |-> "ARM_FPU_SOFTFLOAT"]
          /\ arm_transform_graph(f.type)
    /\ debug \in BOOLEAN
    /\ irg_visited = 1
    /\ old_anchor = NULL
    /\ worklist = <<>>
    /\ pc = "start"
    /\ ai = 0
    /\ stack = <<>>
    /\ call = NULL
    /\ ret = NoRet
    /\ fstack = <<>>
    /\ panic_node = NULL
    /\ xlog = <<>>
    /\ retlog = {}
    /\ fixlog = <<>>
    /\ emitlog = {}
    /\ irgs = <<>>
    /\ statlog = <<>>

SpecStack == InitStack /\ [][Next]_vars


(* ---------------------------------------------------------------------- *)
(* Functions lowered one after the other                                   *)
(* ---------------------------------------------------------------------- *)

\* arm_transform_graph, lines 2614-2630, after be_transform_graph has
\* returned: the stack order and the calling convention are freed, the
\* node_to_stack map is destroyed, and the three pointers are set to NULL;
\* start_mem, start_val and start_callee_saves_offset are left as they are
arm_transform_graph_return ==
    /\ pc = "done"
    /\ pc' = "returned"
    /\ stackorder' = NULL
    /\ cconv' = NULL
    /\ node_to_stack' = NULL
    /\ UNCHANGED <<encvars, irn, irg_visited, arm_cg_config, start_val,
                   start_callee_saves_offset, debug, anchor, old_anchor,
                   worklist, ai, stack, call, ret, fstack, panic_node, xlog,
                   retlog, fixlog, emitlog, seqvars, opvars>>

\* a pointer to a node of the graph lowered before, as the statics hold it
\* while the next graph is lowered: it refers to no node of that graph
Dangling(p) == IF p = NULL THEN NULL ELSE 0 - p

\* the backend hands the next function to arm_transform_graph, which
\* calls arm_register_transformers first: one step per call it makes, ai
\* counts them.  A violated assertion of be_set_transform_function aborts
\* the process of a debug build.
arm_register_transformers_call ==
    /\ pc \in {"returned", "register"}
    /\ irgs # <<>>
    /\ LET i == IF pc = "returned" THEN 1 ELSE ai
           tab == register_call(OpTables, arm_register_transformers[i])
       IN  /\ ops_generic' = tab.generic
           /\ ops_generic1' = tab.generic1
           /\ ai' = i + 1
           /\ pc' = IF debug /\ tab.failed THEN "abort"
                    ELSE IF i = Len(arm_register_transformers)
                    THEN "registered" ELSE "register"
    /\ UNCHANGED <<encvars, irn, irg_visited, arm_cg_config, selvars, debug,
                   anchor, old_anchor, worklist, stack, call, ret, fstack,
                   panic_node, xlog, retlog, fixlog, emitlog, seqvars>>

\* arm_transform_graph after arm_register_transformers has returned, lines
\* 2597-2612: assert(cconv == NULL), a new node_to_stack, the calling
\* convention of the function; then transform_nodes starts on its graph
arm_transform_graph_enter ==
    /\ pc = "registered"
    /\ irgs # <<>>
    /\ IF debug /\ cconv # NULL
       THEN /\ pc' = "abort"
            /\ UNCHANGED <<irn, anchor, arm_cg_config, cconv, node_to_stack,
                           stackorder, start_val, irgs, irg_visited, old_anchor, ai,
                           xlog, retlog, fixlog, emitlog, statlog>>
       ELSE /\ pc' = "start"
            /\ irn' = Head(irgs).irn
            /\ anchor' = Len(Head(irgs).irn)
            /\ arm_cg_config' = [arm_cg_config EXCEPT
                                    !.variant = Head(irgs).variant]
            /\ cconv' = create_stacklayout(
                            arm_decide_calling_convention(Head(irgs).type))
            /\ node_to_stack' = {}
            /\ stackorder' \in be_collect_stacknodes(
                                   Head(irgs).irn, Len(Head(irgs).irn),
                                   Blocks(Head(irgs).irn, Len(Head(irgs).irn)))
            /\ start_val' = [k \in StartKeys |->
                               [start_val[k] EXCEPT !.irn = Dangling(@)]]
            /\ irgs' = Tail(irgs)
            /\ irg_visited' = 1
            /\ old_anchor' = NULL
            /\ ai' = 0
            /\ xlog' = <<>>
            /\ retlog' = {}
            /\ fixlog' = <<>>
            /\ emitlog' = {}
            /\ statlog' = <<>>
    /\ UNCHANGED <<encvars, start_callee_saves_offset, debug, worklist,
                   stack, call, ret, fstack, panic_node, opvars>>

\* the functions lowered in a row: direct calls with no or five arguments
\* in functions of no, two and five parameters
SeqFuncs ==
    {Func("call", CallGraph(np, na, 1, TRUE), IntType(np, 1),
          "ARM_VARIANT_6") : np \in CallParams, na \in {0, MaxParams}}

\* the backend lowers two functions, one after the other
InitSeq ==
    /\ EncoderOff
    /\ \E f \in SeqFuncs :
          /\ irn = f.irn
          /\ anchor = Len(f.irn)
          /\ arm_cg_config = [variant |-> f.variant,
                              fpu |-> "ARM_FPU_SOFTFLOAT"]
          /\ arm_transform_graph(f.type)
    /\ \E f \in SeqFuncs : irgs = <<f>>
    /\ debug \in BOOLEAN
    /\ irg_visited = 1
    /\ old_anchor = NULL
    /\ worklist = <<>>
    /\ pc = "start"
    /\ ai = 0
    /\ stack = <<>>
    /\ call = NULL
    /\ ret = NoRet
    /\ fstack = <<>>
    /\ panic_node = NULL
    /\ xlog = <<>>
    /\ retlog = {}
    /\ fixlog = <<>>
    /\ emitlog = {}
    /\ statlog = <<>>

NextSeq ==
    \/ Next
    \/ arm_transform_graph_return
    \/ arm_register_transformers_call
    \/ arm_transform_graph_enter

SpecSeq == InitSeq /\ [][NextSeq]_vars

(* ---------------------------------------------------------------------- *)
(* Properties of the transform engine                                      *)
(* ---------------------------------------------------------------------- *)

Range(f) == {f[i] : i \in DOMAIN f}

\* the nodes a node refers to: its operands and its block
Refs(nodes, n) ==
    Range(nodes[n].ins) \cup
        (IF nodes[n].block # NULL THEN {nodes[n].block} ELSE {})

\* the source nodes a transform function hands to be_transform_node, and
\* for a Block, an End and a Phi, whose transform functions end with
\* be_enqueue_preds, all operands
Demands(nodes, anch, n) ==
    IF n = anch THEN Range(nodes[n].ins)
    ELSE IF ~has_transform(nodes[n].op) THEN {}
    ELSE LET p == Plan(nodes, anch, n)
         IN  Range(p.dem) \cup
                 (IF p.kind \in {"transform_block", "transform_end",
                                 "be_transform_phi"}
                  THEN Range(nodes[n].ins) ELSE {})

\* the operands and the block of a node that are no Phi, Block or End
PlainRefs(nodes, n) ==
    {m \in Refs(nodes, n) : nodes[m].op \notin {"Phi", "Block", "End"}}

\* the nodes reachable from the nodes of frontier along the edges of one
\* kind: "refs" (all references), "demands" (the demands of the transform
\* functions) or "plain" (references to nodes other than Phi, Block, End)
RECURSIVE ReachFrom(_, _, _, _, _)
ReachFrom(nodes, anch, edges, seen, frontier) ==
    IF frontier = {} THEN seen
    ELSE LET s2 == seen \cup frontier
             nx == UNION {CASE edges = "refs"    -> Refs(nodes, n)
                            [] edges = "demands" -> Demands(nodes, anch, n)
                            [] edges = "plain"   -> PlainRefs(nodes, n)
                          : n \in frontier}
         IN  ReachFrom(nodes, anch, edges, s2, nx \ s2)

Reachable(nodes, roots) == ReachFrom(nodes, NULL, "refs", {}, roots)

\* the nodes of the source graph and the nodes created by the transformation
OldNodes == 1 .. old_anchor

NewNodes == (old_anchor + 1) .. Len(irn)

\* the source nodes with a be_transform_node call that has returned or is
\* returning
Returned == {e[1] : e \in retlog} \cup ({ret.node} \ {NULL})

\* the number of times the transform function of n was invoked
Invocations(log, n) == Cardinality({i \in DOMAIN log : log[i] = n})

\* the source node has a cache entry: its transform function was invoked and
\* its link holds a node of the new graph
HasCacheEntry(n) == n \in Range(xlog) /\ irn[n].link \in NewNodes

\* C1: within one run, all returning be_transform_node calls on a source
\* node yield the same target node; once a call on the node has returned,
\* the node's link is never written again, its visited mark is never taken
\* back, and its transform function is never invoked again.
C1_Memoization ==
    /\ [](/\ \A e1 \in retlog : \A e2 \in retlog :
                e1[1] = e2[1] => e1[2] = e2[2]
          /\ \A e \in retlog : ret.node = e[1] => ret.val = e[2])
    /\ [][\A n \in Returned :
            /\ irn'[n].link = irn[n].link
            /\ irn'[n].visited >= irn[n].visited
            /\ Invocations(xlog', n) = Invocations(xlog, n)]_vars

\* a second call on a Block returns the node the first call stored
C1_Witness ==
    /\ ret # NoRet
    /\ <<ret.node, ret.val>> \in retlog
    /\ ret.val \in NewNodes
    /\ is_Block(irn, ret.node)
    /\ Invocations(xlog, ret.node) = 1

\* C2: after transform_nodes has finished, every node reachable from the
\* new anchor has all its operands and its block in the new graph.
C2_NoSourceReferences ==
    pc = "done" =>
        \A n \in Reachable(irn, {anchor}) :
            n \in NewNodes /\ Refs(irn, n) \subseteq NewNodes \ {anchor}

\* the finished graph holds a loop: a Phi that reads an arm_Add that reads
\* the Phi
C2_Witness ==
    /\ pc = "done"
    /\ \E p \in Reachable(irn, {anchor}) :
          /\ is_op(irn, p, "Phi")
          /\ \E a \in Range(irn[p].ins) :
                is_op(irn, a, "arm_Add") /\ p \in Range(irn[a].ins)

C4_NoSecondInvocation ==
    \A i \in DOMAIN stack : \A j \in DOMAIN stack :
        i # j => stack[i].node # stack[j].node

\* be_transform_node was called on a node without transform function, or
\* on a Proj whose predecessor has no Proj transformer
MissingTransformer(n) ==
    \/ ~has_transform(irn[n].op)
    \/ /\ is_op(irn, n, "Proj")
       /\ ~has_proj_transform(irn[irn[n].ins[1]].op)

\* C5: a be_transform_node call on a node without transformer ends the
\* process by a fatal error that names the node, and calls no null pointer.
C5_MissingTransformerPanics ==
    (call # NULL /\ Ended /\ MissingTransformer(call)) =>
        (pc = "panic" /\ panic_node = call)

\* every cycle of the graph passes through a Phi, a Block or the End node
NoBareCycle(nodes, anch) ==
    \A n \in Reachable(nodes, {anch}) :
        n \notin ReachFrom(nodes, anch, "plain", {}, PlainRefs(nodes, n))

\* every node of the graph has a transformer
AllRegistered(nodes, anch) ==
    \A n \in Reachable(nodes, {anch}) \ {anch} :
        /\ has_transform(nodes[n].op)
        /\ is_op(nodes, n, "Proj") =>
                has_proj_transform(nodes[nodes[n].ins[1]].op)

NoDuplicates(log) ==
    \A i \in DOMAIN log : \A j \in DOMAIN log : i # j => log[i] # log[j]

\* C6: on a source graph whose cycles all pass through a Phi, a Block or the
\* End node, transform_nodes never runs out of stack, and when every node
\* has a transformer it finishes with the worklist empty; a be_transform_node
\* call on an already transformed node enqueues nothing, and fix_loops goes
\* on to process no node twice.
C6_Terminates ==
    /\ (pc = "start" /\ NoBareCycle(irn, anchor))
            ~> (Ended /\ pc # "overflow")
    /\ (pc = "start" /\ NoBareCycle(irn, anchor)
                     /\ AllRegistered(irn, anchor))
            ~> (pc = "done" /\ worklist = <<>>)
    /\ [](NoDuplicates(fixlog))
    /\ [][(call # NULL /\ be_is_transformed(irn, irg_visited, call))
              => worklist' = worklist]_vars

\* transform_nodes has finished on a graph with a loop, and fix_loops has
\* processed the loop's Phi and the arm_Add it reads
C6_Witness ==
    /\ pc = "done"
    /\ worklist = <<>>
    /\ fstack = <<>>
    /\ \E i \in DOMAIN fixlog : \E j \in DOMAIN fixlog :
          /\ is_op(irn, fixlog[i], "Phi")
          /\ is_op(irn, fixlog[j], "arm_Add")
          /\ fixlog[j] \in Range(irn[fixlog[i]].ins)
          /\ fixlog[i] \in Range(irn[fixlog[j]].ins)

\* the Add matches none of the idioms gen_Add tries before
\* gen_int_binop_ops
NoIdiom(nodes, n) ==
    /\ ~be_pattern_is_rotl(nodes, n).ok
    /\ ~match_pkh(nodes, n).ok
    /\ ~mode_is_float(nodes[n].mode)
    /\ ~is_op(nodes, nodes[n].ins[1], "Mul")
    /\ ~is_op(nodes, nodes[n].ins[2], "Mul")

\* a transformed Add without idiom whose second operand is a Const the
\* encoder accepts
ImmediateAdd(n) ==
    /\ is_op(irn, n, "Add")
    /\ n \in Returned
    /\ NoIdiom(irn, n)
    /\ is_Const(irn, irn[n].ins[2])
    /\ try_encode_val_as_immediate(irn[irn[n].ins[2]].tv, NoImm).ok

\* C10: for an Add without idiom whose second operand is a Const the
\* encoder accepts, the transform function creates exactly one node, an
\* arm_Add in immediate form with the encoder's magnitude and rotation and
\* the transformed first operand as its only operand, and the Const is not
\* transformed; 0xFF gives (0xFF, 0) and 0x3FC gives (0xFF, 30).
C10_ImmediateOperand ==
    \A n \in OldNodes :
        ImmediateAdd(n) =>
            LET k   == irn[n].ins[2]
                e   == try_encode_val_as_immediate(irn[k].tv, NoImm)
                new == irn[irn[n].link]
            IN  /\ {m[2] : m \in {m \in emitlog : m[1] = n}} = {irn[n].link}
                /\ new.op = "arm_Add"
                /\ new.shift_modifier = "ARM_SHF_IMM"
                /\ new.immediate_value = e.imm_8
                /\ new.shift_immediate = e.rot
                /\ new.ins = <<irn[irn[n].ins[1]].link>>
                /\ k \notin Range(xlog)
                /\ irn[k].tv = W_0xFF =>
                        new.immediate_value = 255 /\ new.shift_immediate = 0
                /\ irn[k].tv = W_0x3FC =>
                        new.immediate_value = 255 /\ new.shift_immediate = 30

\* Add(Phi, Const 0x3FC) has become an arm_Add with magnitude 0xFF and
\* rotation 30
C10_Witness ==
    /\ pc = "done"
    /\ \E n \in OldNodes :
          /\ ImmediateAdd(n)
          /\ is_op(irn, irn[n].ins[1], "Phi")
          /\ irn[irn[n].ins[2]].tv = W_0x3FC
          /\ irn[irn[n].link].immediate_value = 255
          /\ irn[irn[n].link].shift_immediate = 30

(* ---------------------------------------------------------------------- *)
(* SpecImm: one call of the encoder                                        *)
(* ---------------------------------------------------------------------- *)

\* Every rotation of every pattern of MaxSpan bits: all encodable words,
\* the words one bit too wide, and both at every (odd and even) position.
ImmInputs == {Rol(p, r) : p \in SUBSET (0 .. (MaxSpan - 1)), r \in BitPos}

\* what an uninitialised arm_immediate_t may hold
ImmGarbage == {[imm_8 |-> 0, rot |-> 0], [imm_8 |-> 170, rot |-> 85]}

\* the engine is not running in SpecImm
EngineOff ==
    /\ irn = <<>>
    /\ irg_visited = 0
    /\ arm_cg_config = [variant |-> "ARM_VARIANT_6", fpu |-> "ARM_FPU_SOFTFLOAT"]
    /\ cconv = NoCconv
    /\ start_val = [k \in StartKeys |-> [pos |-> 0, irn |-> NULL]]
    /\ start_callee_saves_offset = 0
    /\ node_to_stack = {}
    /\ stackorder = {}
    /\ ops_generic = {}
    /\ ops_generic1 = {}
    /\ debug = FALSE
    /\ anchor = NULL
    /\ old_anchor = NULL
    /\ worklist = <<>>
    /\ pc = "off"
    /\ ai = 0
    /\ stack = <<>>
    /\ call = NULL
    /\ ret = NoRet
    /\ fstack = <<>>
    /\ panic_node = NULL
    /\ xlog = <<>>
    /\ retlog = {}
    /\ fixlog = <<>>
    /\ emitlog = {}
    /\ irgs = <<>>
    /\ statlog = <<>>

InitImm ==
    /\ val \in ImmInputs
    /\ imm \in ImmGarbage
    /\ enc_ret = "none"
    /\ EngineOff

TryEncode ==
    /\ enc_ret = "none"
    /\ LET r == try_encode_val_as_immediate(val, imm)
       IN  /\ imm' = [imm_8 |-> r.imm_8, rot |-> r.rot]
           /\ enc_ret' = IF r.ok THEN "true" ELSE "false"
    /\ UNCHANGED val
    /\ UNCHANGED engvars

NextImm == TryEncode

SpecImm == InitImm /\ [][NextImm]_vars

\* v is an 8-bit magnitude rotated right by an even amount in 0..30
Encodable(v) == \E r \in {2 * k : k \in 0 .. 15} : LeFF(Rol(v, r))

\* C7: whenever the encoder returns true, imm_8 is an 8-bit magnitude, rot
\* is even and in 0..30, and imm_8 rotated right by rot within 32 bits is
\* the encoded word.
C7_RoundTrip ==
    enc_ret = "true" =>
        /\ imm.imm_8 \in 0 .. 255
        /\ imm.rot \in 0 .. 30
        /\ imm.rot % 2 = 0
        /\ Ror(FromU8(imm.imm_8), imm.rot) = val

\* an accepted word above 0xff whose set bits wrap around the word boundary
C7_Witness ==
    /\ enc_ret = "true"
    /\ ~LeFF(val)
    /\ 31 \in val
    /\ 0 \in val
    /\ imm.rot \in {2, 4, 6}

\* C8: a word the encoder rejects is no 8-bit magnitude rotated right by an
\* even amount in 0..30.
C8_RejectsOnlyUnencodable ==
    enc_ret = "false" => ~Encodable(val)

\* C9: 0xF000000F is accepted, with a rotation that is neither 0 nor 30 and
\* a magnitude that together reproduce the word.
C9_WrapScenario ==
    (val = W_0xF000000F /\ enc_ret # "none") =>
        /\ enc_ret = "true"
        /\ imm.rot \notin {0, 30}
        /\ Ror(FromU8(imm.imm_8), imm.rot) = val

(* ---------------------------------------------------------------------- *)
(* SpecSel: operand folding                                                *)
(* ---------------------------------------------------------------------- *)

\* the operands, the flags and the factory the transform function of a
\* binary operation hands to gen_int_binop_ops: Add is commutative, Sub has
\* the reversed form Rsb, And with a Not as second operand is a Bic of the
\* Not's operand and is neither
BinopCall(n) ==
    CASE irn[n].op = "Sub" ->
            [op1 |-> irn[n].ins[1], op2 |-> irn[n].ins[2], rev |-> TRUE,
             f |-> "arm_Sub", frev |-> "arm_Rsb"]
      [] irn[n].op = "And" ->
            [op1 |-> irn[n].ins[1], op2 |-> irn[irn[n].ins[2]].ins[1],
             rev |-> FALSE, f |-> "arm_Bic", frev |-> "arm_Bic"]
      [] OTHER ->
            [op1 |-> irn[n].ins[1], op2 |-> irn[n].ins[2], rev |-> TRUE,
             f |-> "arm_" \o irn[n].op, frev |-> "arm_" \o irn[n].op]

\* the node is a Const the encoder accepts
EncodableConst(k) ==
    is_Const(irn, k) /\ try_encode_val_as_immediate(irn[k].tv, NoImm).ok

\* a source node whose transform function goes to gen_int_binop_ops with a
\* second operand that is not an encodable constant
FoldCase(n) ==
    /\ irn[n].op \in {"Add", "Sub", "And"}
    /\ NoIdiom(irn, n)
    /\ irn[n].op = "And" => is_op(irn, irn[n].ins[2], "Not")
    /\ ~EncodableConst(BinopCall(n).op2)

\* a move-with-shift: an arm_Mov of a register shifted by an immediate or
\* by a register
MoveWithShift(m) ==
    /\ is_arm_Mov(irn, m)
    /\ irn[m].shift_modifier \in (ImmShifts \cup RegShifts) \ {"ARM_SHF_IMM"}

\* the new node is the shifted-register form of opcode op that folds the
\* move-with-shift mov next to the operand other
FoldsMov(new, op, other, mov) ==
    /\ new.op = op
    /\ new.shift_modifier = irn[mov].shift_modifier
    /\ new.ins = <<other>> \o irn[mov].ins
    /\ irn[mov].shift_modifier \in ImmShifts =>
            new.shift_immediate = irn[mov].shift_immediate

\* C11: once the transform function of a node that goes to
\* gen_int_binop_ops with a second operand that is not an encodable
\* constant has been invoked, the process does not end in an error, and
\* what the function returns is: (2) the register-immediate form on the
\* transformed second operand, of the reversed opcode if there is one,
\* when the operation is commutative or reversible and the first operand
\* is an encodable constant; (3) else the shifted-register form that folds
\* the transformed second operand if that is a move-with-shift, else, for
\* a commutative or reversible operation, the one that folds the
\* transformed first operand (operands swapped, reversed opcode); (4) else
\* the plain register-register form.
C11_FoldingPriority ==
    \A n \in OldNodes :
        FoldCase(n) /\ n \in Range(xlog) =>
            /\ pc \notin {"abort", "panic", "segv"}
            /\ n \in Returned =>
                LET c   == BinopCall(n)
                    new == irn[irn[n].link]
                    n1  == irn[c.op1].link
                    n2  == irn[c.op2].link
                IN  IF c.rev /\ EncodableConst(c.op1)
                    THEN LET e == try_encode_val_as_immediate(irn[c.op1].tv,
                                                              NoImm)
                         IN  /\ new.op = c.frev
                             /\ new.shift_modifier = "ARM_SHF_IMM"
                             /\ new.immediate_value = e.imm_8
                             /\ new.shift_immediate = e.rot
                             /\ new.ins = <<n2>>
                    ELSE IF MoveWithShift(n2)
                    THEN FoldsMov(new, c.f, n1, n2)
                    ELSE IF c.rev /\ MoveWithShift(n1)
                    THEN FoldsMov(new, c.frev, n2, n1)
                    ELSE /\ new.op = c.f
                         /\ new.shift_modifier = "ARM_SHF_REG"
                         /\ new.ins = <<n1, n2>>

(* ---------------------------------------------------------------------- *)
(* SpecSel: rotates                                                        *)
(* ---------------------------------------------------------------------- *)

\* the amount of a shift by a Const, -1 for any other node
ShiftAmount(s) ==
    IF is_Const(irn, irn[s].ins[2])
    THEN get_tarval_long(irn[irn[s].ins[2]].tv)
    ELSE 0 - 1

\* l is a Shl(a, x) and r a Shr(a, 32 - x) of the same a, with x in 1 .. 31
ShlShrPair(l, r) ==
    /\ is_op(irn, l, "Shl")
    /\ is_op(irn, r, "Shr")
    /\ irn[l].ins[1] = irn[r].ins[1]
    /\ ShiftAmount(l) \in 1 .. (WordBits - 1)
    /\ ShiftAmount(r) = WordBits - ShiftAmount(l)

\* a 32-bit Or or Add of Shl(a, x) and Shr(a, 32 - x), in either order
RotlCase(n) ==
    /\ irn[n].op \in {"Or", "Add"}
    /\ get_mode_size_bits(irn[n].mode) = WordBits
    /\ \/ ShlShrPair(irn[n].ins[1], irn[n].ins[2])
       \/ ShlShrPair(irn[n].ins[2], irn[n].ins[1])

\* the Shl of the pair
ShlOf(n) ==
    IF is_op(irn, irn[n].ins[1], "Shl") THEN irn[n].ins[1] ELSE irn[n].ins[2]

\* the nodes the transform function of n created
Emitted(n) == {m[2] : m \in {m \in emitlog : m[1] = n}}

\* C12: a 32-bit Or or Add of Shl(a, x) and Shr(a, 32 - x), x in 1 .. 31,
\* in either operand order, is lowered to exactly one node, an arm_Mov of
\* the transformed a with the modifier rotate-right-by-immediate and the
\* amount (32 - x) mod 32, which rotates left by x; neither shift is
\* transformed, so there are no shift nodes and no combining node.
C12_RotateFusion ==
    \A n \in OldNodes :
        RotlCase(n) /\ n \in Returned =>
            LET x   == ShiftAmount(ShlOf(n))
                a   == irn[ShlOf(n)].ins[1]
                new == irn[irn[n].link]
            IN  /\ Emitted(n) = {irn[n].link}
                /\ new.op = "arm_Mov"
                /\ new.shift_modifier = "ARM_SHF_ROR_IMM"
                /\ new.shift_immediate = (WordBits - x) % WordBits
                /\ new.ins = <<irn[a].link>>
                /\ irn[n].ins[1] \notin Range(xlog)
                /\ irn[n].ins[2] \notin Range(xlog)
                /\ \A w \in ConstVals :
                      Ror(w, new.shift_immediate) = Rol(w, x)

\* Add(Shr(a, 31), Shl(a, 1)) has become a rotate right by 31
C12_Witness ==
    /\ pc = "done"
    /\ \E n \in OldNodes :
          /\ RotlCase(n)
          /\ irn[n].op = "Add"
          /\ is_op(irn, irn[n].ins[1], "Shr")
          /\ ShiftAmount(ShlOf(n)) = 1
          /\ irn[irn[n].link].shift_modifier = "ARM_SHF_ROR_IMM"
          /\ irn[irn[n].link].shift_immediate = 31

(* ---------------------------------------------------------------------- *)
(* SpecSel: packs                                                          *)
(* ---------------------------------------------------------------------- *)

\* an And of some value with the Const tv
AndWith(m, tv) ==
    /\ is_op(irn, m, "And")
    /\ is_Const(irn, irn[m].ins[2])
    /\ irn[irn[m].ins[2]].tv = tv

\* an Or or Add of And(a, 0x0000FFFF) and And(b, 0xFFFF0000), in either
\* order
PkhCase(n) ==
    /\ irn[n].op \in {"Or", "Add"}
    /\ \/ AndWith(irn[n].ins[1], 0 .. 15) /\ AndWith(irn[n].ins[2], 16 .. 31)
       \/ AndWith(irn[n].ins[2], 0 .. 15) /\ AndWith(irn[n].ins[1], 16 .. 31)

\* the a of the pack: the value masked with 0x0000FFFF
PkhLowOf(n) ==
    IF AndWith(irn[n].ins[1], 0 .. 15)
    THEN irn[irn[n].ins[1]].ins[1] ELSE irn[irn[n].ins[2]].ins[1]

\* the b of the pack: the value masked with 0xFFFF0000
PkhHighOf(n) ==
    IF AndWith(irn[n].ins[1], 16 .. 31)
    THEN irn[irn[n].ins[1]].ins[1] ELSE irn[irn[n].ins[2]].ins[1]

\* the new node has the transformed source node first as its register
\* operand Rn, and the value of the source node second as its flexible
\* second operand: as an immediate, as a plain register, or as the
\* register and the shift of the move-with-shift that second was
\* transformed into
Operands(new, first, second) ==
    \/ /\ EncodableConst(second)
       /\ new.shift_modifier = "ARM_SHF_IMM"
       /\ new.ins = <<irn[first].link>>
       /\ LET e == try_encode_val_as_immediate(irn[second].tv, NoImm)
          IN  new.immediate_value = e.imm_8 /\ new.shift_immediate = e.rot
    \/ /\ new.shift_modifier = "ARM_SHF_REG"
       /\ new.ins = <<irn[first].link, irn[second].link>>
    \/ /\ MoveWithShift(irn[second].link)
       /\ new.shift_modifier = irn[irn[second].link].shift_modifier
       /\ new.shift_immediate = irn[irn[second].link].shift_immediate
       /\ new.ins = <<irn[first].link>> \o irn[irn[second].link].ins

\* C13: an Or or Add of And(a, 0x0000FFFF) and And(b, 0xFFFF0000), in
\* either operand order, is lowered to one pack node in which a supplies
\* the low half-word and b the high one: a Pkhbt with a as Rn and b as
\* second operand, or the reversed Pkhtb with b as Rn and a as second
\* operand; the lowering does not end in an error.
C13_PackFusion ==
    \A n \in OldNodes :
        PkhCase(n) /\ n \in Range(xlog) =>
            /\ pc \notin {"abort", "panic", "segv"}
            /\ n \in Returned =>
                LET new == irn[irn[n].link]
                IN  /\ Emitted(n) = {irn[n].link}
                    /\ \/ /\ new.op = "arm_Pkhbt"
                          /\ Operands(new, PkhLowOf(n), PkhHighOf(n))
                       \/ /\ new.op = "arm_Pkhtb"
                          /\ Operands(new, PkhHighOf(n), PkhLowOf(n))

(* ---------------------------------------------------------------------- *)
(* SpecSel: multiply-accumulate and the order of the idioms                *)
(* ---------------------------------------------------------------------- *)

\* an integer Add with a Mul as operand
MlaCase(n) ==
    /\ is_op(irn, n, "Add")
    /\ ~mode_is_float(irn[n].mode)
    /\ \/ is_op(irn, irn[n].ins[1], "Mul")
       \/ is_op(irn, irn[n].ins[2], "Mul")

\* the Mul of the multiply-accumulate: the left operand if that is a Mul
MulOf(n) ==
    IF is_op(irn, irn[n].ins[1], "Mul") THEN irn[n].ins[1] ELSE irn[n].ins[2]

\* the other operand of the Add or Sub
OtherOf(n) ==
    IF is_op(irn, irn[n].ins[1], "Mul") THEN irn[n].ins[2] ELSE irn[n].ins[1]

\* C14: an integer Add(Mul(a, b), c) or Add(c, Mul(a, b)) is lowered to
\* exactly one multiply-add node with the operands (transformed a,
\* transformed b, transformed c) in that order; the Mul is not transformed;
\* the node is an arm_Mla_v5 below ARM_VARIANT_6 and an arm_Mla from there
\* on.
C14_MultiplyAccumulate ==
    \A n \in OldNodes :
        MlaCase(n) /\ n \in Returned =>
            LET mul == MulOf(n)
                new == irn[irn[n].link]
            IN  /\ Emitted(n) = {irn[n].link}
                /\ new.op = IF arm_cg_config.variant
                                  \in {"ARM_VARIANT_4", "ARM_VARIANT_5T"}
                             THEN "arm_Mla_v5" ELSE "arm_Mla"
                /\ new.ins = <<irn[irn[mul].ins[1]].link,
                               irn[irn[mul].ins[2]].link,
                               irn[OtherOf(n)].link>>
                /\ mul \notin Range(xlog)

\* Add(p2, Mul(p0, p1)) has become an arm_Mla_v5 of (p0, p1, p2) on
\* ARM_VARIANT_5T
C14_Witness ==
    /\ pc = "done"
    /\ arm_cg_config.variant = "ARM_VARIANT_5T"
    /\ \E n \in OldNodes :
          /\ MlaCase(n)
          /\ is_op(irn, irn[n].ins[2], "Mul")
          /\ is_op(irn, irn[n].ins[1], "Proj")
          /\ irn[irn[n].link].op = "arm_Mla_v5"
          /\ Len(irn[irn[n].link].ins) = 3

\* C15: when the transform function of an Add or Or is invoked on a node
\* that one of the idioms matches (rotate, pack, or for an integer Add
\* multiply-accumulate), it creates no arm_Add and no arm_Or node in any
\* operand form; Add(Mul(a, b), Const 1) becomes a multiply-add whose third
\* operand is the Const in a register (an arm_Mov of the value 1).
C15_IdiomsFirst ==
    \A n \in OldNodes :
        /\ irn[n].op \in {"Add", "Or"}
        /\ RotlCase(n) \/ PkhCase(n) \/ MlaCase(n)
        /\ n \in Range(xlog)
        => /\ \A m \in Emitted(n) : irn[m].op \notin {"arm_Add", "arm_Or"}
           /\ MlaCase(n) /\ n \in Returned /\ is_Const(irn, OtherOf(n)) =>
                LET new == irn[irn[n].link]
                    k   == OtherOf(n)
                IN  /\ new.op \in {"arm_Mla", "arm_Mla_v5"}
                    /\ k \in Range(xlog)
                    /\ new.ins[3] = irn[k].link
                    /\ irn[irn[k].link].op = "arm_Mov"
                    /\ irn[irn[k].link].shift_modifier = "ARM_SHF_IMM"
                    /\ irn[irn[k].link].immediate_value
                          = get_tarval_long(irn[k].tv)

\* Add(Mul(p0, p1), Const 1) has become an arm_Mla whose third operand is
\* an arm_Mov of the immediate 1
C15_Witness ==
    /\ pc = "done"
    /\ \E n \in OldNodes :
          /\ MlaCase(n)
          /\ is_op(irn, irn[n].ins[1], "Mul")
          /\ is_Const(irn, irn[n].ins[2])
          /\ irn[irn[n].link].op = "arm_Mla"
          /\ irn[irn[irn[n].link].ins[3]].op = "arm_Mov"
          /\ irn[irn[irn[n].link].ins[3]].immediate_value = 1

\* an integer Sub whose second operand is a Mul
MlsCase(n) ==
    /\ is_op(irn, n, "Sub")
    /\ ~mode_is_float(irn[n].mode)
    /\ is_op(irn, irn[n].ins[2], "Mul")

\* C16: an integer Sub(c, Mul(a, b)) is lowered to a single arm_Mls with
\* the operands (transformed a, transformed b, transformed c), the Mul not
\* being transformed, if the ISA variant is ARM_VARIANT_6T2 or newer; on an
\* older variant the Mul is transformed as an operand and the Sub becomes
\* an arm_Sub or arm_Rsb, and no arm_Mls is created.
C16_MultiplySubtract ==
    \A n \in OldNodes :
        MlsCase(n) /\ n \in Returned =>
            LET mul == irn[n].ins[2]
                new == irn[irn[n].link]
            IN  IF arm_cg_config.variant \in {"ARM_VARIANT_6T2",
                                              "ARM_VARIANT_7"}
                THEN /\ Emitted(n) = {irn[n].link}
                     /\ new.op = "arm_Mls"
                     /\ new.ins = <<irn[irn[mul].ins[1]].link,
                                    irn[irn[mul].ins[2]].link,
                                    irn[irn[n].ins[1]].link>>
                     /\ mul \notin Range(xlog)
                ELSE /\ Emitted(n) = {irn[n].link}
                     /\ new.op \in {"arm_Sub", "arm_Rsb"}
                     /\ mul \in Range(xlog)
                     /\ \A m \in NewNodes : irn[m].op # "arm_Mls"

\* Sub(p2, Mul(p0, p1)) has become an arm_Mls on ARM_VARIANT_6T2
C16_Witness ==
    /\ pc = "done"
    /\ arm_cg_config.variant = "ARM_VARIANT_6T2"
    /\ \E n \in OldNodes :
          /\ MlsCase(n)
          /\ is_op(irn, irn[n].ins[1], "Proj")
          /\ irn[irn[n].link].op = "arm_Mls"

(* ---------------------------------------------------------------------- *)
(* SpecSel: calls, function entry and function exit                        *)
(* ---------------------------------------------------------------------- *)

\* the registers a call clobbers, as listed at mips_new_nodes.c:557-572
CallerSavedRegisters ==
    <<"r0", "r1", "r2", "r3", "lr",
      "f0", "f1", "f2", "f3", "f4", "f5", "f6", "f7">>

\* a call node of the new graph
IsCall(m) == irn[m].op \in {"arm_Bl", "arm_LinkMovPC"}

\* the source Proj that selects the result pn of a Call
ResultProj(n) ==
    /\ is_op(irn, n, "Proj")
    /\ is_op(irn, irn[n].ins[1], "Proj")
    /\ irn[irn[n].ins[1]].pn = 1
    /\ is_op(irn, irn[irn[n].ins[1]].ins[1], "Call")

\* C17: every arm_Bl and arm_LinkMovPC of the new graph has the outputs
\* memory, stack pointer and then one output per register of caller_saves,
\* each required to be that register, at output first_result + its
\* position in caller_saves; the Proj of a call's result becomes the Proj
\* of the new call that selects the output required to be the result's
\* register, and lowering it does not panic.
C17_CallClobbers ==
    /\ \A m \in NewNodes :
          IsCall(m) =>
              /\ Len(irn[m].out_reqs) = 2 + Len(CallerSavedRegisters)
              /\ \A i \in DOMAIN CallerSavedRegisters :
                    irn[m].out_reqs[2 + i] = CallerSavedRegisters[i]
    /\ \A n \in OldNodes :
          ResultProj(n) /\ n \in Range(xlog) =>
              /\ pc # "panic"
              /\ n \in Returned =>
                    LET new  == irn[irn[n].link]
                        ncall == irn[irn[irn[n].ins[1]].ins[1]].link
                    IN  /\ new.op = "Proj"
                        /\ new.ins = <<ncall>>
                        /\ IsCall(ncall)
                        /\ irn[ncall].out_reqs[new.pn + 1]
                              = CallerSavedRegisters[irn[n].pn + 1]

\* an indirect call with two stack arguments whose result is used has been
\* lowered: the arm_LinkMovPC has 15 outputs and the result is its output 2
C17_Witness ==
    /\ pc = "done"
    /\ \E n \in OldNodes :
          /\ ResultProj(n)
          /\ n \in Returned
          /\ irn[irn[n].link].pn = 2
          /\ irn[irn[irn[n].link].ins[1]].op = "arm_LinkMovPC"
          /\ Len(irn[irn[irn[n].link].ins[1]].out_reqs) = 15
          /\ \E s \in NewNodes : irn[s].op = "Sync"

\* the source Proj that selects the parameter pn of the function
ParamProj(n) ==
    /\ is_op(irn, n, "Proj")
    /\ is_op(irn, irn[n].ins[1], "Proj")
    /\ irn[irn[n].ins[1]].pn = 2
    /\ is_op(irn, irn[irn[n].ins[1]].ins[1], "Start")

\* the loads of the new graph
Loads == {m \in NewNodes : irn[m].op = "arm_Ldr"}

\* C18: the arm_Start has exactly 2 + n_param_regs + |callee_saves|
\* outputs: memory, the stack pointer, the registers the convention record
\* assigns to the parameters, in parameter order, then the callee-saved
\* registers.  A parameter with a register is read as the Proj of its
\* Start output and no load; a parameter without one has no output and is
\* read as the result of one arm_Ldr from its entity, addressed by the
\* frame pointer, on the initial memory.  With five integer parameters
\* there are four register outputs and at most one load.
C18_StartOutputs ==
    /\ \A m \in NewNodes :
          irn[m].op = "arm_Start" =>
              /\ Len(irn[m].out_reqs)
                    = 2 + cconv.n_param_regs + Len(callee_saves)
              /\ irn[m].out_reqs
                    = <<"none", "sp">> \o param_out_regs(cconv.parameters)
                         \o callee_saves
              /\ Len(cconv.parameters) = 5 =>
                    /\ cconv.n_param_regs = 4
                    /\ SubSeq(irn[m].out_reqs, 3, 6)
                          = <<"r0", "r1", "r2", "r3">>
                    /\ Cardinality(Loads) <= 1
    /\ \A n \in OldNodes :
          ParamProj(n) /\ n \in Returned =>
              LET new   == irn[irn[n].link]
                  param == cconv.parameters[irn[n].pn + 1]
                  src   == irn[new.ins[1]]
              IN  IF param.reg0 # "none"
                  THEN /\ new.op = "Proj"
                       /\ src.op = "arm_Start"
                       /\ src.out_reqs[new.pn + 1] = param.reg0
                       /\ \A m \in Emitted(n) : irn[m].op # "arm_Ldr"
                  ELSE /\ new.op = "Proj"
                       /\ new.pn = 0
                       /\ src.op = "arm_Ldr"
                       /\ src.entity = ir_entity("param", irn[n].pn)
                       /\ src.ins = <<irn[anchor].ins[5],
                                      start_val["mem"].irn>>
                       /\ Emitted(n) \cap Loads = {new.ins[1]}
                       /\ \A o \in DOMAIN irn[irn[anchor].ins[4]].out_reqs :
                             o > 2 + cconv.n_param_regs =>
                                irn[irn[anchor].ins[4]].out_reqs[o]
                                    \notin {"r0", "r1", "r2", "r3"}

\* a function with five parameters has been lowered: its arm_Start has 15
\* outputs and its fifth parameter is the result of an arm_Ldr
C18_Witness ==
    /\ pc = "done"
    /\ Len(cconv.parameters) = 5
    /\ Len(irn[irn[anchor].ins[4]].out_reqs) = 15
    /\ \E n \in OldNodes :
          /\ ParamProj(n)
          /\ irn[n].pn = 4
          /\ n \in Returned
          /\ irn[irn[irn[n].link].ins[1]].op = "arm_Ldr"
          /\ Cardinality(Loads) = 1

\* the registers the convention assigns to the results, in result order
ResultRegisters == <<"r0", "r1", "r2", "r3">>

\* C19: the arm_Return built for a Return has the inputs memory, stack
\* pointer, one per returned value, one per callee-saved register, in that
\* order: the transformed memory, the stack pointer (the sp output of the
\* arm_Start, or the be_IncSP that releases the frame of the Call of the
\* function), the transformed results.  Its requirements are, position by position, none,
\* sp, the register of each result, each callee-saved register.  The i-th
\* callee-saved input is the Proj of the arm_Start with number
\* start_callee_saves_offset + i, and the arm_Start requires the same
\* register for that output.
C19_ReturnInputs ==
    \A n \in OldNodes :
        is_op(irn, n, "Return") /\ n \in Returned =>
            LET new   == irn[irn[n].link]
                n_res == Len(irn[n].ins) - 1
                n_cs  == Len(callee_saves)
                start == irn[anchor].ins[4]
            IN  /\ new.op = "arm_Return"
                /\ Len(new.ins) = 2 + n_res + n_cs
                /\ new.ins[1] = irn[irn[n].ins[1]].link
                /\ new.ins[2] \in NewNodes
                /\ IF \E c \in OldNodes : is_op(irn, c, "Call")
                   THEN /\ irn[new.ins[2]].op = "be_IncSP"
                        /\ irn[new.ins[2]].offset <= 0
                   ELSE /\ irn[new.ins[2]].op = "Proj"
                        /\ irn[new.ins[2]].pn = 1
                        /\ irn[new.ins[2]].ins = <<start>>
                /\ \A i \in 1 .. n_res :
                      new.ins[2 + i] = irn[irn[n].ins[1 + i]].link
                /\ new.in_reqs
                      = <<"none", "sp">> \o SubSeq(ResultRegisters, 1, n_res)
                          \o <<"r4", "r5", "r6", "r7", "r8", "r9", "r10",
                               "r11", "lr">>
                /\ irn[start].op = "arm_Start"
                /\ \A i \in 0 .. n_cs - 1 :
                      LET value == irn[new.ins[3 + n_res + i]]
                      IN  /\ value.op = "Proj"
                          /\ value.ins = <<start>>
                          /\ value.pn = start_callee_saves_offset + i
                          /\ irn[start].out_reqs[value.pn + 1]
                                = new.in_reqs[3 + n_res + i]

\* the Return of a function with register parameters and a result has been
\* lowered: the callee-saved Projs start after the parameter outputs
C19_Witness ==
    /\ pc = "done"
    /\ start_callee_saves_offset = 6
    /\ \E n \in OldNodes :
          /\ is_op(irn, n, "Return")
          /\ n \in Returned
          /\ Len(irn[n].ins) = 2
          /\ Len(irn[irn[n].link].ins) = 12
          /\ irn[irn[irn[n].link].ins[4]].pn = 6

\* the size of an argument slot of the parameter stack frame
SlotSize == 4

\* the arguments of the source Call n that the convention leaves on the
\* stack: those after the first four
StackArgs(n) == {p \in 1 .. Len(irn[n].ins) - 2 : p > 4}

\* the stores of the new graph
Stores == {m \in NewNodes : irn[m].op = "arm_Str"}

\* the stack pointer adjustments of the new graph
IncSPs == {m \in NewNodes : irn[m].op = "be_IncSP"}

\* C20: for a lowered Call with a parameter stack frame of size bytes,
\* (1) the SP input of the call is a be_IncSP by +size of the incoming
\* stack pointer, and it is the base of every argument store; (2) there is
\* exactly one arm_Str per argument on the stack, of the transformed
\* argument at its offset on the transformed memory, and the memory input
\* of the call is the transformed memory for no store, the store for one,
\* a Sync of all of them for several; (3) one be_IncSP by -size is applied
\* to the Proj of the stack output of the call and is kept alive by the
\* End.  The nodes are created in this order and the two offsets add up to
\* zero.
C20_CallFrame ==
    \A n \in OldNodes :
        is_op(irn, n, "Call") /\ n \in Returned =>
            LET ncall   == irn[n].link
                new     == irn[ncall]
                size    == SlotSize * Cardinality(StackArgs(n))
                incsp   == new.ins[2]
                new_mem == irn[irn[n].ins[1]].link
                release == {m \in IncSPs : m # incsp}
                the_end == irn[irn[anchor].ins[3]]
            IN  /\ incsp \in IncSPs
                /\ irn[incsp].offset = size
                /\ irn[irn[incsp].ins[1]].op = "Proj"
                /\ irn[irn[incsp].ins[1]].pn = 1
                /\ irn[irn[incsp].ins[1]].ins = <<irn[anchor].ins[4]>>
                /\ Cardinality(Stores) = Cardinality(StackArgs(n))
                /\ \A p \in StackArgs(n) :
                      \E s \in Stores :
                          /\ irn[s].ins = <<incsp, irn[irn[n].ins[2 + p]].link,
                                            new_mem>>
                          /\ irn[s].offset = SlotSize * (p - 5)
                          /\ incsp < s /\ s < ncall
                /\ CASE Cardinality(Stores) = 0 -> new.ins[1] = new_mem
                     [] Cardinality(Stores) = 1 -> new.ins[1] \in Stores
                     [] OTHER ->
                          /\ irn[new.ins[1]].op = "Sync"
                          /\ Range(irn[new.ins[1]].ins) = Stores
                          /\ Len(irn[new.ins[1]].ins) = Cardinality(Stores)
                /\ Cardinality(release) = 1
                /\ \A m \in release :
                      /\ irn[irn[m].ins[1]].op = "Proj"
                      /\ irn[irn[m].ins[1]].pn = 1
                      /\ irn[irn[m].ins[1]].ins = <<ncall>>
                      /\ irn[m].offset = 0 - size
                      /\ irn[incsp].offset + irn[m].offset = 0
                      /\ ncall < m
                      /\ m \in Range(the_end.ins)

\* a Call with six arguments has been lowered: a frame of 8 bytes, two
\* stores joined by a Sync, and the release of the frame
C20_Witness ==
    /\ pc = "done"
    /\ \E n \in OldNodes :
          /\ is_op(irn, n, "Call")
          /\ n \in Returned
          /\ Cardinality(StackArgs(n)) = 2
          /\ Cardinality(Stores) = 2
          /\ irn[irn[irn[n].link].ins[1]].op = "Sync"
          /\ irn[irn[irn[n].link].ins[2]].offset = 8
          /\ \E m \in IncSPs : irn[m].offset = 0 - 8

(* ---------------------------------------------------------------------- *)
(* Properties of functions lowered in a row                                *)
(* ---------------------------------------------------------------------- *)

\* the slot whose read is the i-th entry of the log was written before, in
\* the same call of arm_transform_graph
WrittenBefore(log, i) ==
    \E j \in 1 .. i - 1 : log[j] = <<"w", log[i][2]>>

\* the slots of start_mem and start_val that still hold a Proj of the
\* graph lowered before
DanglingSlots == {k \in StartKeys : start_val[k].irn < 0}

\* C21: when arm_transform_graph has returned, and until the next call of
\* it has registered its transformers, stackorder, cconv and node_to_stack
\* are NULL and the worklist is empty.  While a function is lowered, every
\* slot of start_mem / start_val and the start_callee_saves_offset that is
\* read was written before during the lowering of the same function, no
\* node refers to a node of the graph lowered before, no slot that still
\* holds a Proj of that graph belongs to a register of a parameter of the
\* function once its Start is transformed, and node_to_stack maps Calls of
\* the function to nodes of its new graph only.
C21_NoLeakBetweenFunctions ==
    /\ pc \in {"returned", "register", "registered"} =>
          /\ stackorder = NULL
          /\ cconv = NULL
          /\ node_to_stack = NULL
          /\ worklist = <<>>
    /\ pc \notin {"returned", "register", "registered"} =>
          /\ \A i \in DOMAIN statlog :
                statlog[i][1] = "r" => WrittenBefore(statlog, i)
          /\ \A n \in DOMAIN irn :
                /\ \A i \in DOMAIN irn[n].ins : irn[n].ins[i] >= 0
                /\ irn[n].link >= 0
          /\ statlog # <<>> =>
                DanglingSlots \cap
                    ({"mem", "sp"} \cup Range(param_out_regs(cconv.parameters)))
                  = {}
          /\ \A e \in node_to_stack :
                /\ is_op(irn, e[1], "Call")
                /\ e[1] \in OldNodes
                /\ e[2] \in NewNodes

\* the second of two functions is lowered: the first had five parameters,
\* this one has two and has read both; the slots of r2 and r3 still hold
\* the Projs of the first function's graph
C21_Witness ==
    /\ pc = "done"
    /\ irgs = <<>>
    /\ Len(cconv.parameters) = 2
    /\ DanglingSlots = {"r2", "r3"}
    /\ \E i \in DOMAIN statlog : statlog[i] = <<"r", "r1">>
    /\ \E i \in DOMAIN statlog : statlog[i] = <<"r", "start_callee_saves_offset">>

(* ---------------------------------------------------------------------- *)
(* C22: operations the configured hardware does not support                *)
(* ---------------------------------------------------------------------- *)

\* the instructions of the FPA coprocessor
FpaInstructions ==
    {"arm_Adf", "arm_Suf", "arm_Muf", "arm_Dvf", "arm_Mvf", "arm_FltX",
     "arm_Ldf", "arm_Stf", "arm_Cmfe", "arm_fConst"}

\* the source node n is a float-mode operation of the list of the claim
FloatOperation(n) ==
    LET nd == irn[n]
    IN  \/ nd.op \in {"Add", "Sub", "Mul", "Minus", "Const"}
           /\ mode_is_float(nd.mode)
        \/ nd.op = "Div" /\ mode_is_float(nd.resmode)
        \/ nd.op = "Conv"
           /\ (mode_is_float(nd.mode) \/ mode_is_float(irn[nd.ins[1]].mode))
        \/ nd.op = "Load" /\ mode_is_float(nd.resmode)
        \/ nd.op = "Store" /\ mode_is_float(irn[nd.ins[3]].mode)
        \/ nd.op = "Cmp" /\ mode_is_float(irn[nd.ins[1]].mode)

\* the source node n needs hardware support the configuration lacks
NeedsMissingHardware(n) ==
    \/ irn[n].op \in {"Load", "Store"}
       /\ irn[n].unaligned = "align_non_aligned"
    \/ arm_cg_config.fpu # "ARM_FPU_FPA" /\ FloatOperation(n)

\* C22: the transform function of an operation that needs hardware support
\* the configuration lacks (a Load or a Store flagged as non-aligned; a
\* float-mode Add, Sub, Mul, Div, Minus, Conv, Const, Load, Store or
\* compare when the FPU is not the FPA) never returns a node: lowering
\* aborts.  Hence no FPA instruction exists in the new graph when the FPU is
\* not the FPA.
C22_UnsupportedAborts ==
    /\ \A n \in OldNodes :
          NeedsMissingHardware(n) => n \notin Returned /\ irn[n].link = NULL
    /\ arm_cg_config.fpu # "ARM_FPU_FPA" =>
          \A m \in NewNodes : irn[m].op \notin FpaInstructions

(* ---------------------------------------------------------------------- *)
(* SpecConst: one call of create_const_graph_value                         *)
(* ---------------------------------------------------------------------- *)

\* bit positions from which words of up to four steps are put together
ConstMarks == {0, 1, 7, 8, 13, 18, 24, 31}

\* the words handed to create_const_graph_value: the inputs of the encoder,
\* the words over the marks, and the complements of both
ConstInputs ==
    LET words == ImmInputs \cup SUBSET ConstMarks
    IN  words \cup {BitNot(w) : w \in words}

\* the graph holds one block, the engine is not running
InitConst ==
    /\ val \in ConstInputs
    /\ imm = [imm_8 |-> 0, rot |-> 0]
    /\ enc_ret = "none"
    /\ irn = <<Src("Block", "BB", <<>>, NULL)>>
    /\ irg_visited = 0
    /\ arm_cg_config = [variant |-> "ARM_VARIANT_6",
                        fpu |-> "ARM_FPU_SOFTFLOAT"]
    /\ cconv = NoCconv
    /\ start_val = [k \in StartKeys |-> [pos |-> 0, irn |-> NULL]]
    /\ start_callee_saves_offset = 0
    /\ node_to_stack = {}
    /\ stackorder = {}
    /\ ops_generic = {}
    /\ ops_generic1 = {}
    /\ debug = FALSE
    /\ anchor = NULL
    /\ old_anchor = NULL
    /\ worklist = <<>>
    /\ pc = "off"
    /\ ai = 0
    /\ stack = <<>>
    /\ call = NULL
    /\ ret = NoRet
    /\ fstack = <<>>
    /\ panic_node = NULL
    /\ xlog = <<>>
    /\ retlog = {}
    /\ fixlog = <<>>
    /\ emitlog = {}
    /\ irgs = <<>>
    /\ statlog = <<>>

\* create_const_graph_value(dbgi, block 1, val): the chain is appended to
\* the graph, its last node is the result
CreateConstGraph ==
    /\ enc_ret = "none"
    /\ irn' = irn \o create_const_graph_value(1, val, Len(irn))
    /\ enc_ret' = "graph"
    /\ UNCHANGED <<val, imm, irg_visited, arm_cg_config, selvars, debug,
                   anchor, old_anchor, worklist, pc, ai, stack, call, ret,
                   fstack, panic_node, xlog, retlog, fixlog, emitlog, seqvars, opvars>>

NextConst == CreateConstGraph

SpecConst == InitConst /\ [][NextConst]_vars

(* ---------------------------------------------------------------------- *)
(* C23: constants are materialised exactly and by the shorter chain        *)
(* ---------------------------------------------------------------------- *)

\* the word an immediate operand stands for: imm8 rotated right by rot
ImmWord(nd) == Ror(FromU8(nd.immediate_value), nd.shift_immediate)

\* the 32-bit value the instruction n of a chain computes
RECURSIVE ChainValue(_, _)
ChainValue(nodes, n) ==
    LET nd == nodes[n]
    IN  CASE nd.op = "arm_Mov" -> ImmWord(nd)
          [] nd.op = "arm_Mvn" -> BitNot(ImmWord(nd))
          [] nd.op = "arm_Or"  -> ChainValue(nodes, nd.ins[1]) \cup ImmWord(nd)
          [] nd.op = "arm_Bic" -> ChainValue(nodes, nd.ins[1]) \ ImmWord(nd)

\* the instructions of the chain, in the order they were created
ConstChain == 2 .. Len(irn)

\* C23: the chain create_const_graph_value emits for v computes v.  With k
\* = the number of steps of arm_gen_vals_from_word for v and kn = the
\* number for the complement of v, both in 1..4, the chain has kn
\* instructions (a Mvn_imm followed by Bic_imm of the one before) if kn < k
\* and k instructions (a Mov_imm followed by Or_imm of the one before)
\* otherwise.  Every step has an 8-bit magnitude and an even rotation in
\* 0..30, and the bit fields of the steps are disjoint.
C23_ConstChain ==
    enc_ret = "graph" =>
        LET k  == Len(arm_gen_vals_from_word(val))
            kn == Len(arm_gen_vals_from_word(BitNot(val)))
            remove == kn < k
        IN  /\ k \in 1 .. 4
            /\ kn \in 1 .. 4
            /\ Len(irn) - 1 = IF remove THEN kn ELSE k
            /\ ChainValue(irn, Len(irn)) = val
            /\ \A n \in ConstChain :
                  /\ irn[n].shift_modifier = "ARM_SHF_IMM"
                  /\ irn[n].immediate_value \in 0 .. 255
                  /\ irn[n].shift_immediate \in {2 * r : r \in 0 .. 15}
                  /\ irn[n].block = 1
                  /\ IF n = 2
                     THEN /\ irn[n].op = IF remove THEN "arm_Mvn"
                                         ELSE "arm_Mov"
                          /\ irn[n].ins = <<>>
                     ELSE /\ irn[n].op = IF remove THEN "arm_Bic"
                                         ELSE "arm_Or"
                          /\ irn[n].ins = <<n - 1>>
            /\ \A n \in ConstChain : \A m \in ConstChain :
                  n # m => ImmWord(irn[n]) \cap ImmWord(irn[m]) = {}

\* a word of four steps whose complement takes three: three bits are
\* cleared from a register with all bits set
C23_Witness ==
    /\ enc_ret = "graph"
    /\ Len(arm_gen_vals_from_word(val)) = 4
    /\ Len(irn) - 1 = 3
    /\ irn[2].op = "arm_Mvn"
    /\ irn[4].op = "arm_Bic"
    /\ ChainValue(irn, Len(irn)) = val

(* ---------------------------------------------------------------------- *)
(* C24: every opcode of the input graphs has its transformers             *)
(* ---------------------------------------------------------------------- *)

\* the opcodes a graph handed to the selector is built from
GenericOpcodes ==
    {"Add", "Sub", "Mul", "Div", "And", "Or", "Eor", "Not", "Minus", "Shl",
     "Shr", "Shrs", "Cmp", "Cond", "Jmp", "Switch", "Load", "Store", "Call",
     "Return", "Start", "Phi", "Const", "Address", "Conv", "Builtin",
     "Member", "CopyB", "Unknown", "Block", "End", "Proj", "Sync", "NoMem",
     "Pin"}

\* the opcodes whose results are selected by Proj nodes
ProjOpcodes ==
    {"Start", "Call", "Load", "Store", "Div", "Cond", "Switch", "Builtin",
     "Proj"}

\* transform_nodes is running on a graph or has finished
Transforming == pc \in {"start", "anchors", "worklist", "fix", "done"}

\* the nodes of the graph being transformed, without the Anchor
GraphNodes ==
    {n \in (IF old_anchor = NULL THEN 1 .. anchor ELSE OldNodes) :
        irn[n].op # "Anchor"}

\* C24: once arm_register_transformers has returned, every opcode of the
\* generic opcode set has a transform function and every opcode whose
\* results are selected by Proj nodes has a Proj transformer, so no node of
\* a graph built from these opcodes lacks the function dispatch looks for.
\* Whenever be_set_transform_function is called for an opcode, the opcode
\* has no transform function since the table was last cleared: the
\* assertion holds, and no table ever holds two entries for one opcode.
C24_Registration ==
    /\ pc # "register" =>
          /\ \A op \in GenericOpcodes : has_transform(op)
          /\ \A op \in ProjOpcodes : has_proj_transform(op)
    /\ Transforming =>
          \A n \in GraphNodes :
             /\ irn[n].op \in GenericOpcodes
             /\ is_op(irn, n, "Proj") => irn[irn[n].ins[1]].op \in ProjOpcodes
             => ~MissingTransformer(n)
    /\ (pc = "register" /\ arm_register_transformers[ai][1] = "generic") =>
          ~has_transform(arm_register_transformers[ai][2])
    /\ \A e1 \in ops_generic : \A e2 \in ops_generic :
          e1[1] = e2[1] => e1 = e2
    /\ \A e1 \in ops_generic1 : \A e2 \in ops_generic1 :
          e1[1] = e2[1] => e1 = e2

\* the second function of a process: its Call is dispatched through the
\* tables that were cleared and filled again after the first function
C24_Witness ==
    /\ pc = "worklist"
    /\ irgs = <<>>
    /\ call # NULL
    /\ irn[call].op = "Call"
    /\ ops_generic = Registered.generic
    /\ <<"Call", "gen_Call">> \in ops_generic

(* ---------------------------------------------------------------------- *)
(* C25: requirement lists                                                  *)
(* ---------------------------------------------------------------------- *)

\* the nodes of the new graph with an operand requirement list: the Phis,
\* the function exits and the calls
ReqNodes ==
    {n \in NewNodes :
        /\ old_anchor # NULL
        /\ irn[n].op \in {"Phi", "arm_Return", "arm_Bl", "arm_LinkMovPC"}}

\* every operand position of n holds an assigned requirement
OperandsAssigned(n) ==
    /\ Len(irn[n].in_reqs) >= Len(irn[n].ins)
    /\ \A i \in DOMAIN irn[n].ins : irn[n].in_reqs[i] # "unassigned"

\* every result position of n holds an assigned requirement
ResultsAssigned(n, n_outs) ==
    /\ Len(irn[n].out_reqs) = n_outs
    /\ \A i \in DOMAIN irn[n].out_reqs : irn[n].out_reqs[i] # "unassigned"

\* the function-entry node and the calls have a requirement for every result
AllResultsAssigned ==
    \A n \in {m \in NewNodes : old_anchor # NULL} :
       /\ irn[n].op = "arm_Start" =>
             ResultsAssigned(n, 2 + cconv.n_param_regs + Len(callee_saves))
       /\ irn[n].op \in {"arm_Bl", "arm_LinkMovPC"} =>
             ResultsAssigned(n, 2 + Len(caller_saves))

OldAnchor == IF old_anchor = NULL THEN anchor ELSE old_anchor

\* the nodes link_ops_in_block_walker has put in the list of the block
Collected(block) ==
    {n \in irg_walk_graph(irn, {}, {irn[OldAnchor].ins[3]}) :
        /\ link_ops_in_block_walker(irn, n)
        /\ irn[n].block = block}

\* n1 is in front of n2 for cmp_call_dependency
Before(n1, n2) == cmp_call_dependency(irn, OldAnchor, n1, n2) < 0

\* the nodes reached from n by following be_get_stack_pred
RECURSIVE StackPreds(_, _)
StackPreds(n, seen) ==
    LET p == be_get_stack_pred(irn, OldAnchor, n)
    IN  IF p = NULL \/ p \in seen THEN seen
        ELSE StackPreds(p, seen \cup {p})

UnsignedLongAbove(v, bound) == v < 0 \/ v > bound

\* get_mode_sign
get_mode_sign(mode) == mode_is_signed(mode)

\* is_tarval_16, lines 413-428; nd is the node, its tv the long value of
\* its tarval
is_tarval_16(nd) ==
    IF get_mode_sign(nd.mode)
    THEN ~(nd.tv < 0 - 32768 \/ nd.tv > 32767)
    ELSE ~UnsignedLongAbove(nd.tv, 65536)

\* new_tarval_from_long (tr/tv): the value wrapped into the 16 bits of
\* mode_Hs or mode_Hu
new_tarval_from_long(v, mode) ==
    LET w == v % Pow2(16)
    IN  IF mode = "Hs" /\ w >= Pow2(15) THEN w - Pow2(16) ELSE w

\* MIPS_MAKE_IFOLDING_TRANSFORM(srcnode, inode, commutative), lines 473-480
MipsFoldings ==
    { <<"mips_add", "mips_addi", TRUE>>, <<"mips_and", "mips_andi", TRUE>>,
      <<"mips_or", "mips_ori", TRUE>>, <<"mips_sra", "mips_srai", FALSE>>,
      <<"mips_xor", "mips_xori", TRUE>>, <<"mips_sl", "mips_sli", FALSE>>,
      <<"mips_sr", "mips_sri", FALSE>>, <<"mips_slt", "mips_slti", FALSE>> }

is_mips_lli(nodes, n) == nodes[n].op = "mips_lli"

is_mips_lui(nodes, n) == nodes[n].op = "mips_lui"

\* mips_transform_##srcnode, lines 430-458: the nodes it creates and the
\* node it returns; node is an srcnode of the folding f, base the number
\* of nodes there are
mips_transform(nodes, f, node, base) ==
    LET nd  == nodes[node]
        op1 == nd.ins[1]
        op2 == nd.ins[2]
        inode(op, cnst) ==
            [new_ir_node(f[2], nd.mode, <<op>>, nd.block) EXCEPT
                !.tv = new_tarval_from_long(nodes[cnst].tv,
                          IF get_mode_sign(nd.mode) THEN "Hs" ELSE "Hu")]
    IN  IF op1 = NULL \/ op2 = NULL
        THEN [new |-> <<>>, result |-> node]
        ELSE IF /\ is_mips_lli(nodes, op2) \/ is_mips_lui(nodes, op2)
                /\ is_tarval_16(nodes[op2])
        THEN [new |-> <<inode(op1, op2)>>, result |-> base + 1]
        ELSE IF /\ f[3]
                /\ is_mips_lli(nodes, op1) \/ is_mips_lui(nodes, op1)
                /\ is_tarval_16(nodes[op1])
        THEN [new |-> <<inode(op2, op1)>>, result |-> base + 1]
        ELSE [new |-> <<>>, result |-> node]

\* the long values of the constants: the ends of the two 16 bit ranges and
\* their neighbours
MipsValues ==
    {0 - 32769, 0 - 32768, 0 - 1, 0, 32767, 32768, 65535, 65536, 65537}

\* the operands of the node to fold: none, a loaded value, or an lli or
\* lui with the long value get_tarval_long gives for its tarval (negative
\* for an unsigned tarval above LONG_MAX)
MipsOperands ==
    {<<>>, <<new_ir_node("mips_lw", "Iu", <<>>, 1)>>}
    \cup {<<[new_ir_node(op, mode, <<>>, 1) EXCEPT !.tv = v]>> :
             op \in {"mips_lli", "mips_lui"}, mode \in {"Is", "Iu"},
             v \in MipsValues}

\* a block, the operands, and the node the transform is called on
InitMips ==
    /\ EncoderOff
    /\ \E f \in MipsFoldings, mode \in {"Is", "Iu"},
          a \in MipsOperands, b \in MipsOperands :
            irn = <<Src("Block", "BB", <<>>, NULL)>> \o a \o b
                  \o <<new_ir_node(f[1], mode,
                          << IF a = <<>> THEN NULL ELSE 2,
                             IF b = <<>> THEN NULL ELSE 2 + Len(a) >>, 1)>>
    /\ irg_visited = 0
    /\ arm_cg_config = [variant |-> "ARM_VARIANT_6",
                        fpu |-> "ARM_FPU_SOFTFLOAT"]
    /\ cconv = NoCconv
    /\ start_val = [k \in StartKeys |-> [pos |-> 0, irn |-> NULL]]
    /\ start_callee_saves_offset = 0
    /\ node_to_stack = {}
    /\ stackorder = {}
    /\ ops_generic = {}
    /\ ops_generic1 = {}
    /\ debug = FALSE
    /\ anchor = NULL
    /\ old_anchor = NULL
    /\ worklist = <<>>
    /\ pc = "off"
    /\ ai = 0
    /\ stack = <<>>
    /\ call = NULL
    /\ ret = NoRet
    /\ fstack = <<>>
    /\ panic_node = NULL
    /\ xlog = <<>>
    /\ retlog = {}
    /\ fixlog = <<>>
    /\ emitlog = {}
    /\ irgs = <<>>
    /\ statlog = <<>>

\* op->ops.transform_node of the last node, as mips_init_opcode_transforms
\* has set it
MipsTransformNode ==
    /\ ret = NoRet
    /\ LET node == Len(irn)
           f    == CHOOSE f \in MipsFoldings : f[1] = irn[node].op
           t    == mips_transform(irn, f, node, Len(irn))
       IN  /\ irn' = irn \o t.new
           /\ ret' = [node |-> node, val |-> t.result]
    /\ UNCHANGED <<encvars, irg_visited, arm_cg_config, selvars, debug,
                   anchor, old_anchor, worklist, pc, ai, stack, call,
                   fstack, panic_node, xlog, retlog, fixlog, emitlog,
                   seqvars, opvars>>

NextMips == MipsTransformNode

SpecMips == InitMips /\ [][NextMips]_vars

\* the transform has returned a new node with the constant cnst folded in
\* and op as its operand
Folded(cnst, op) ==
    /\ ret # NoRet
    /\ ret.val # ret.node
    /\ irn[ret.val].ins = <<op>>
    /\ irn[ret.node].ins \in {<<op, cnst>>, <<cnst, op>>}

\* a 16 bit immediate of the mode holds v
Fits16(mode, v) ==
    IF get_mode_sign(mode) THEN v >= 0 - 32768 /\ v <= 32767
    ELSE v >= 0 /\ v <= 65535

\* C27: the immediate folding transforms fold only a constant that a 16
\* bit immediate of its mode can hold, 0..65535 for an unsigned and
\* -32768..32767 for a signed mode, and a transform of an operation that
\* is not commutative never folds its first operand.
C27_FoldsOnly16Bit ==
    \A cnst, op \in 2 .. Len(irn) :
       Folded(cnst, op) =>
          /\ Fits16(irn[cnst].mode, irn[cnst].tv)
          /\ \E f \in MipsFoldings :
                /\ f[1] = irn[ret.node].op
                /\ ~f[3] => irn[ret.node].ins = <<op, cnst>>

(* ---------------------------------------------------------------------- *)
(* C28: folding an arm Mov operand                                         *)
(* ---------------------------------------------------------------------- *)

\* the transform function on top of the call stack has all its operands
\* transformed and is gen_int_binop_ops at its switch on the Movs
AtMovSwitch ==
    /\ pc \in {"anchors", "worklist"}
    /\ stack # <<>>
    /\ call = NULL
    /\ ret = NoRet
    /\ stack[Len(stack)].k > Len(stack[Len(stack)].plan.dem)
    /\ stack[Len(stack)].plan.kind = "binop_reg"

\* C28: when gen_int_binop_ops folds a transformed operand that is an arm
\* Mov into a shifted-register form, it reads only inputs the Mov has: the
\* node it builds takes no operand from past the inputs of a Mov, so a Mov
\* in immediate form, which has no input, is not folded.
C28_ReadsOnlyMovInputs ==
    AtMovSwitch =>
       LET f == stack[Len(stack)]
       IN  ~gen_int_binop_ops_fold(irn, f.plan, f.res[1], f.res[3],
                                   f.res[2], NULL).oob

(* ---------------------------------------------------------------------- *)
(* C29: no re-entry                                                        *)
(* ---------------------------------------------------------------------- *)

\* the source nodes whose transform function is executing
Executing == {stack[i].node : i \in DOMAIN stack}

\* the in-progress state: marked as visited, without a target
InProgress(n) ==
    be_is_transformed(irn, irg_visited, n) /\ irn[n].link = NULL

\* C29: on the functions with several calls, whose cycles all pass through
\* a Phi, be_transform_node is never called on a node whose transform
\* function is executing, be it by a transform function for an operand or
\* by get_stack_pointer_for for a stack predecessor; be_transform_node
\* never returns NULL and its assertion never fails; and when the worklist
\* loop takes its next node, no source node is in the in-progress state.
C29_NoReentry ==
    /\ pc \in {"anchors", "worklist"} /\ call # NULL =>
          call \notin Executing
    /\ pc \in {"anchors", "worklist"} /\ ret # NoRet => ret.val # NULL
    /\ pc # "abort"
    /\ pc = "worklist" /\ Idle =>
          \A n \in OldNodes : ~InProgress(n)

\* in the loop function gen_Call has called get_stack_pointer_for, which
\* calls be_transform_node on the stack predecessor, a Call that is not
\* transformed yet
C29_Witness ==
    /\ pc = "worklist"
    /\ call # NULL
    /\ stack # <<>>
    /\ \E n \in OldNodes : irn[n].op = "Phi"
    /\ stack[Len(stack)].plan.kind = "gen_Call"
    /\ call = be_get_stack_pred(irn, old_anchor, stack[Len(stack)].node)
    /\ irn[call].op = "Call"
    /\ ~be_is_transformed(irn, irg_visited, call)

(* ---------------------------------------------------------------------- *)
(* C30: the stack pointer of calls and returns                             *)
(* ---------------------------------------------------------------------- *)

\* m is the selector of the stack pointer output of the new Start node
IsStartSP(m) ==
    /\ irn[m].op = "Proj"
    /\ irn[m].pn = 1
    /\ irn[m].ins = <<irn[anchor].ins[4]>>

\* m is the be_IncSP that releases the frame of the lowered Call p, the one
\* node_to_stack records for p
IsRestoreOf(m, p) ==
    /\ m \in IncSPs
    /\ m = pmap_get(node_to_stack, p)
    /\ irn[irn[m].ins[1]].op = "Proj"
    /\ irn[irn[m].ins[1]].pn = 1
    /\ irn[irn[m].ins[1]].ins = <<irn[p].link>>

\* the stack pointer the lowered Call or Return n works on: the operand of
\* the be_IncSP that allocates the frame of a call, the stack pointer input
\* of a function exit
StackPointerOf(n) ==
    IF is_op(irn, n, "Call") THEN irn[irn[irn[n].link].ins[2]].ins[1]
    ELSE irn[irn[n].link].ins[2]

\* the nearest Call in front of n in the stack order of its block, NULL if
\* there is none
RECURSIVE NearestCall(_)
NearestCall(n) ==
    LET stack_pred == be_get_stack_pred(irn, old_anchor, n)
    IN  IF stack_pred = NULL \/ is_op(irn, stack_pred, "Call")
        THEN stack_pred
        ELSE NearestCall(stack_pred)

\* the stack predecessors of n up to the nearest Call
RECURSIVE PredsToCall(_)
PredsToCall(n) ==
    LET stack_pred == be_get_stack_pred(irn, old_anchor, n)
    IN  IF stack_pred = NULL THEN {}
        ELSE IF is_op(irn, stack_pred, "Call") THEN {stack_pred}
        ELSE {stack_pred} \cup PredsToCall(stack_pred)

\* C30: the stack pointer every lowered Call and Return works on is the
\* restoring be_IncSP, recorded in node_to_stack, of the nearest Call in
\* front of it in the stack order of its block, or the selector of the
\* stack pointer output of Start when no Call is in front of it.  The
\* stack predecessors up to that Call, of which those without an entry in
\* node_to_stack are skipped, have been transformed before.  So the calls
\* of a block are chained by their stack pointers in stack order.
C30_StackPointerChain ==
    Transforming =>
       \A n \in OldNodes :
          irn[n].op \in {"Call", "Return"} /\ n \in Returned =>
             LET ncall == NearestCall(n)
             IN  /\ \A p \in PredsToCall(n) :
                       /\ irn[p].block = irn[n].block
                       /\ p \in Returned
                       /\ irn[p].link < irn[n].link
                       /\ p # ncall => pmap_get(node_to_stack, p) = NULL
                 /\ IF ncall = NULL
                    THEN IsStartSP(StackPointerOf(n))
                    ELSE IsRestoreOf(StackPointerOf(n), ncall)

\* three calls and the Return of one block are lowered; the stack order,
\* which is not the order of the node numbers, runs a, b, c, Return, and
\* so does the chain of the stack pointers
C30_Witness ==
    /\ Transforming
    /\ \E a, b, c, r \in OldNodes \cap Returned :
          /\ irn[a].op = "Call" /\ irn[b].op = "Call" /\ irn[c].op = "Call"
          /\ irn[r].op = "Return"
          /\ a > b
          /\ be_get_stack_pred(irn, old_anchor, a) = NULL
          /\ be_get_stack_pred(irn, old_anchor, b) = a
          /\ be_get_stack_pred(irn, old_anchor, c) = b
          /\ be_get_stack_pred(irn, old_anchor, r) = c
          /\ IsStartSP(StackPointerOf(a))
          /\ IsRestoreOf(StackPointerOf(b), a)
          /\ IsRestoreOf(StackPointerOf(c), b)
          /\ IsRestoreOf(StackPointerOf(r), c)

\* the call after the Return is lowered: get_stack_pointer_for has skipped
\* the Return, which has no entry, and the call works on the stack pointer
\* that the call in front of the Return has restored
C30_WitnessSkip ==
    /\ Transforming
    /\ \E b, c, r \in OldNodes \cap Returned :
          /\ irn[b].op = "Call" /\ irn[c].op = "Call"
          /\ irn[r].op = "Return"
          /\ be_get_stack_pred(irn, old_anchor, c) = r
          /\ be_get_stack_pred(irn, old_anchor, r) = b
          /\ IsRestoreOf(StackPointerOf(c), b)
          /\ IsRestoreOf(StackPointerOf(r), b)

====
